---------------------------- MODULE Spec2Model ----------------------------
(***************************************************************************)
(* Gravity Miner: the simulation and world engine (src/src/game/            *)
(* GameEngine.ts, Ball.ts, Block.ts) and the shell that drives it           *)
(* (src/src/components/GameCanvas.tsx).                                     *)
(*                                                                         *)
(* Numbers.  The engine computes in IEEE doubles.  Here every length is a   *)
(* fixed-point integer in tenths of a pixel (PX units per pixel), every     *)
(* velocity is tenths of a pixel per reference frame, times are             *)
(* milliseconds, and every product or quotient is rounded down to that      *)
(* grid.  Math.random() is a nondeterministic choice from a small set of    *)
(* outcomes.  Presentation-only fields (colours, hover flags, sound and     *)
(* display settings, the dirt pattern) are not part of the state.           *)
(***************************************************************************)
EXTENDS Integers, Sequences, FiniteSets, TLC

VARIABLES
    gameState,          \* 'MENU' | 'PLAYING' | 'PAUSED'
    menuState,          \* 'MAIN' | 'SETTINGS' | 'SHOP'
    activeButton,       \* id of the pressed button, or "null"
    isResizing,         \* resize guard (also set by the volume slider)
    shopOpenedFromHUD,
    money,
    upgrades,           \* record of the six upgrade levels
    offsetY,            \* camera offset
    maxRowGenerated,    \* generation frontier
    rowHeight,
    canvasWidth, canvasHeight,
    holeWidth, holeLeft, holeRight,
    notificationText, notificationTimer,
    autoSaveTimer,
    bitBoosterTimer, cashBoosterTimer,
    prestigeCount,
    lastActiveTime,
    balls,              \* sequence of Ball records
    blocks,             \* sequence of Block records (the live cells, in list order)
    storage,            \* localStorage[SAVE_KEY]: a snapshot record or NoSave
    now,                \* Date.now()
    resizeTimeout,      \* GameCanvas: a settle timeout is pending
    loopAlive,          \* GameCanvas: the frame callback is still scheduled
    hiddenAt,           \* history: when the tab was hidden in PLAYING and has not come back, or -1
    budget,             \* how many more frames, resizes, absences and reloads a run may take
    op                  \* the operation that produced this state, and what it observed

engineVars == <<gameState, menuState, activeButton, isResizing, shopOpenedFromHUD,
                money, upgrades, offsetY, maxRowGenerated, rowHeight,
                canvasWidth, canvasHeight, holeWidth, holeLeft, holeRight,
                notificationText, notificationTimer, autoSaveTimer,
                bitBoosterTimer, cashBoosterTimer, prestigeCount, lastActiveTime,
                balls, blocks>>

vars == <<engineVars, storage, now, resizeTimeout, loopAlive, hiddenAt, budget, op>>

-----------------------------------------------------------------------------
(* Arithmetic helpers *)

Max(a, b) == IF a >= b THEN a ELSE b
Min(a, b) == IF a <= b THEN a ELSE b
Abs(a) == IF a < 0 THEN -a ELSE a

\* Math.ceil(n / d) for d > 0
CeilDiv(n, d) == -((-n) \div d)

\* Math.sqrt, rounded down
RECURSIVE SqrtFrom(_, _)
SqrtFrom(n, g) ==
    LET h == (g + n \div g) \div 2
    IN  IF h >= g THEN g ELSE SqrtFrom(n, h)
Sqrt(n) == IF n <= 0 THEN 0 ELSE SqrtFrom(n, n)

RECURSIVE Pow(_, _)
Pow(b, n) == IF n = 0 THEN 1 ELSE b * Pow(b, n - 1)

RECURSIVE SumSeq(_)
SumSeq(s) == IF s = <<>> THEN 0 ELSE Head(s) + SumSeq(Tail(s))

-----------------------------------------------------------------------------
(* Units and program constants *)

PX == 10                      \* model units per pixel (fixed-point resolution)
numColumns == 10
INITIAL_ROWS == 40
BATCH_ROWS == 50
AUTO_SAVE_INTERVAL == 300000
BIT_BOOSTER_DURATION == 5000
CASH_BOOSTER_DURATION == 5000
NOTIFICATION_DURATION == 2000
MAX_BLOCK_LEVEL == 10
PRESTIGE_DEPTH == 1000
MAX_OFFLINE_TIME == 86400000

NoSave == [present |-> FALSE]
NullButton == "null"

UpgradeTypes == {"damage", "gravity", "efficiency",
                 "bitBoosters", "explosiveBlocks", "cashBoosters"}
BlockUpgradeTypes == {"bitBoosters", "explosiveBlocks", "cashBoosters"}

BaseUpgrades == [damage |-> 1, gravity |-> 1, efficiency |-> 1,
                 bitBoosters |-> 0, explosiveBlocks |-> 0, cashBoosters |-> 0]

-----------------------------------------------------------------------------
(* Geometry *)

\* updateGeometry: the hole is the centred half of the canvas
updateGeometry(e) ==
    LET hw == e.canvasWidth \div 2
        hl == (e.canvasWidth - hw) \div 2
    IN  [e EXCEPT !.holeWidth = hw, !.holeLeft = hl, !.holeRight = hl + hw]

getGroundY(e) == Max(200 * PX, (e.canvasHeight * 3) \div 10)

\* dx = holeWidth / (numColumns - 1); radius = dx / Math.sqrt(3)
ColumnStep(hw) == hw \div (numColumns - 1)
HexRadius(hw) == (ColumnStep(hw) * 1000) \div 1732

\* radius = rowHeight / 1.5, as recomputed from rowHeight all over the engine
RadiusOfRow(rh) == (rh * 2) \div 3
\* rowHeight = radius * 1.5
RowOfRadius(r) == (r * 3) \div 2

\* min(canvasHeight * 0.3, 250)
HoverDist(e) == Min((e.canvasHeight * 3) \div 10, 250 * PX)

\* radius * 0.02 * (1 + (gravityLevel - 1) * 0.1)
GravityFor(radius, level) == (radius * 2 * (10 + (level - 1))) \div 1000

-----------------------------------------------------------------------------
(* Ball.ts and Block.ts *)

Elasticity(v) == (v * 98) \div 100          \* v * 0.98

\* Ball constructor; damage defaults to 1
Ball(x, y, radius, dx, dy, gravity) ==
    [x |-> x, y |-> y, radius |-> radius, dx |-> dx, dy |-> dy,
     gravity |-> gravity, damage |-> 1]

\* Block constructor: maxHp = hp, typeRolled = false
Block(x, y, radius, hp, value, row, col, type) ==
    [x |-> x, y |-> y, radius |-> radius, hp |-> hp, maxHp |-> hp,
     value |-> value, row |-> row, col |-> col, type |-> type,
     typeRolled |-> FALSE]

\* a variant of takeDamage that adds the amount
takeDamageHealing(b, amount) == [b EXCEPT !.hp = b.hp + amount]

\* Block.takeDamage: hp -= amount; returns hp <= 0
takeDamage(b, amount) == [b EXCEPT !.hp = b.hp - amount]

-----------------------------------------------------------------------------
(* Math.random() for the type rolls.  A roll is floor(Math.random() * 100): *)
(* the chances are whole percents, so this resolution decides every         *)
(* comparison.  A roll pattern gives the rolls of one pass over the cells:  *)
(* the cells of pat.cells draw pat.roll, every other cell draws 99.         *)

RollOf(pat, row, col) == IF <<row, col>> \in pat.cells THEN pat.roll ELSE 99

\* roll < bitBoosterChance, else roll < bit + explosive, else roll < bit + explosive + cash
RolledType(roll, up, otherwise) ==
    IF roll < up.bitBoosters THEN "bitBooster"
    ELSE IF roll < up.bitBoosters + up.explosiveBlocks THEN "explosive"
    ELSE IF roll < up.bitBoosters + up.explosiveBlocks + up.cashBoosters THEN "cashBooster"
    ELSE otherwise

\* a test that lets the half cells beside the hole through
InHoleOrBeside(e, x) == x >= e.holeLeft - ColumnStep(e.holeWidth) /\ x <= e.holeRight + ColumnStep(e.holeWidth)

InHole(e, x) == x >= e.holeLeft /\ x <= e.holeRight

-----------------------------------------------------------------------------
(* WorldGenerator *)

\* health = 1 + floor(r * 0.2), value = 10 + floor(r * 0.5)
RowHp(r) == 1 + (r * 2) \div 10
RowValue(r) == 10 + (r * 5) \div 10

\* the cell generateRows builds at (r, c) in the engine's current geometry
GeneratedBlock(e, r, c, pat) ==
    LET dx == ColumnStep(e.holeWidth)
        radius == HexRadius(e.holeWidth)
        startY == getGroundY(e) + radius + 20 * PX
        xOffset == IF r % 2 = 0 THEN 0 ELSE -(dx \div 2)
        finalX == c * dx + xOffset + e.holeLeft
        finalY == startY + r * e.rowHeight
        blockType == IF InHole(e, finalX)
                     THEN RolledType(RollOf(pat, r, c), e.upgrades, "normal")
                     ELSE "normal"
    IN  [Block(finalX, finalY, radius - PX, RowHp(r), RowValue(r), r, c, blockType)
            EXCEPT !.typeRolled = TRUE]

generateRows(e, startRow, count, pat) ==
    LET dx == ColumnStep(e.holeWidth)
        all == [i \in 1..(count * numColumns) |->
                   GeneratedBlock(e, startRow + (i - 1) \div numColumns,
                                  (i - 1) % numColumns, pat)]
        kept(b) == ~(b.x < e.holeLeft - dx \/ b.x > e.holeRight + dx)
    IN  [e EXCEPT !.blocks = e.blocks \o SelectSeq(all, kept),
                  !.maxRowGenerated = startRow + count]

\* rerollExistingBlocks: every live cell inside the hole is rolled again
rerollExistingBlocks(e, pat) ==
    IF e.upgrades.bitBoosters = 0 /\ e.upgrades.explosiveBlocks = 0
       /\ e.upgrades.cashBoosters = 0
    THEN e
    ELSE [e EXCEPT !.blocks =
            [i \in 1..Len(e.blocks) |->
                LET b == e.blocks[i]
                IN  IF b.x < e.holeLeft \/ b.x > e.holeRight THEN b
                    ELSE [b EXCEPT
                            !.type = RolledType(RollOf(pat, b.row, b.col), e.upgrades, "normal"),
                            !.typeRolled = TRUE]]]

-----------------------------------------------------------------------------
(* The world an operation works on: the engine's fields, localStorage, the  *)
(* clock, and obs, the record of what the operation did (kept in op).       *)

NoObs == [saves |-> 0, removed |-> <<>>, calls |-> 0, expanded |-> <<>>,
          overrun |-> FALSE, stalled |-> FALSE, threw |-> FALSE, result |-> FALSE,
          physics |-> FALSE,
          buy |-> "none", prestiged |-> FALSE,
          tested |-> [frontier |-> 0, row |-> 0], hits |-> <<>>,
          offline |-> [ran |-> FALSE, elapsed |-> 0, earned |-> 0],
          load |-> [width |-> 0, height |-> 0, savedWidth |-> 0, savedHeight |-> 0]]

\* Math.random() as thousandths
RandomUnit == {0, 999}
\* (Math.random() - 0.5) * span
Jitter(r, span) == ((r - 500) * span) \div 1000

showNotification(w, text) ==
    [w EXCEPT !.notificationText = text, !.notificationTimer = NOTIFICATION_DURATION]

SavedBall(b) == [x |-> b.x, y |-> b.y, dx |-> b.dx, dy |-> b.dy,
                 radius |-> b.radius, damage |-> b.damage]

SavedBlock(b) == [x |-> b.x, y |-> b.y, row |-> b.row, col |-> b.col, hp |-> b.hp,
                  maxHp |-> b.maxHp, value |-> b.value, radius |-> b.radius,
                  type |-> b.type, typeRolled |-> b.typeRolled]

\* the value saveGame serialises
Snapshot(w) ==
    [present |-> TRUE, decodable |-> TRUE, hasBlocks |-> TRUE,
     money |-> w.money, upgrades |-> w.upgrades,
     bitBoosterTimer |-> w.bitBoosterTimer, cashBoosterTimer |-> w.cashBoosterTimer,
     prestigeCount |-> w.prestigeCount, offsetY |-> w.offsetY,
     maxRowGenerated |-> w.maxRowGenerated, rowHeight |-> w.rowHeight,
     canvasWidth |-> w.canvasWidth, canvasHeight |-> w.canvasHeight,
     lastActiveTime |-> w.now,
     balls |-> [i \in 1..Len(w.balls) |-> SavedBall(w.balls[i])],
     blocks |-> [i \in 1..Len(w.blocks) |-> SavedBlock(w.blocks[i])]]

saveGame(w, showIt) ==
    IF showIt
    THEN showNotification([w EXCEPT !.storage = Snapshot(w), !.obs.saves = w.obs.saves + 1],
                          "Game Saved!")
    ELSE [w EXCEPT !.storage = Snapshot(w), !.obs.saves = w.obs.saves + 1]

\* balls.reduce((deepest, ball) => ball.y > deepest.y ? ball : deepest, balls[0])
RECURSIVE DeepestFrom(_, _, _)
DeepestFrom(bs, i, best) ==
    IF i > Len(bs) THEN best
    ELSE DeepestFrom(bs, i + 1, IF bs[i].y > best.y THEN bs[i] ELSE best)
deepestBall(bs) == DeepestFrom(bs, 1, bs[1])

-----------------------------------------------------------------------------
(* GeometryRemapper *)

\* the remap of one ball in PLAYING or PAUSED
ResizedBall(ball, oldStartY, oldRowHeight, oldHoleLeft, oldHoleWidth, oldRadius, newStartY, newRowHeight, newHoleLeft, newHoleWidth, radius) ==
    LET y1 == newStartY + ((ball.y - oldStartY) * newRowHeight) \div oldRowHeight
        x1 == IF oldHoleWidth > 0
              THEN newHoleLeft + ((ball.x - oldHoleLeft) * newHoleWidth) \div oldHoleWidth
              ELSE ball.x
        currentSpeed == Sqrt(ball.dx * ball.dx + ball.dy * ball.dy)
        scaled == (currentSpeed * radius) \div oldRadius
        maxSafeSpeed == radius
        newSpeed == IF scaled > maxSafeSpeed THEN maxSafeSpeed ELSE scaled
        moving == oldRadius > 0 /\ currentSpeed > 0
    IN  [ball EXCEPT !.y = y1, !.x = x1,
                     !.dx = IF moving THEN (ball.dx * newSpeed) \div currentSpeed ELSE ball.dx,
                     !.dy = IF moving THEN (ball.dy * newSpeed) \div currentSpeed ELSE ball.dy]

\* the balls after the branch on gameState: in MENU the first ball is put back
\* over the ground; otherwise every ball is remapped (when oldRowHeight > 1)
MovedBalls(w, g, sized, rnd) ==
    IF w.gameState = "MENU"
    THEN [i \in 1..Len(sized) |->
            IF i = 1
            THEN [sized[i] EXCEPT !.x = g.canvasWidth \div 2,
                                  !.y = getGroundY(g) - HoverDist(g),
                                  !.dx = Jitter(rnd, 4 * PX),
                                  !.dy = 0]
            ELSE sized[i]]
    ELSE IF w.rowHeight > PX
    THEN [i \in 1..Len(sized) |->
            ResizedBall(sized[i],
                        getGroundY(w) + RadiusOfRow(w.rowHeight) + 20 * PX,
                        w.rowHeight, w.holeLeft, w.holeWidth, RadiusOfRow(w.rowHeight),
                        getGroundY(g) + HexRadius(g.holeWidth) + 20 * PX,
                        RowOfRadius(HexRadius(g.holeWidth)), g.holeLeft, g.holeWidth,
                        HexRadius(g.holeWidth))]
    ELSE sized

\* the camera after the same branch
MovedCamera(w, g, moved) ==
    IF w.gameState = "MENU" THEN getGroundY(g) - (g.canvasHeight * 3) \div 4
    ELSE IF w.rowHeight > PX THEN deepestBall(moved).y - g.canvasHeight \div 3
    ELSE w.offsetY

\* a variant of ResizedBlock that leaves the cell at its old height
ResizedBlockKeepingY(b, g) ==
    [b EXCEPT !.radius = HexRadius(g.holeWidth) - PX,
              !.x = b.col * ColumnStep(g.holeWidth)
                    + (IF b.row % 2 = 0 THEN 0 ELSE -(ColumnStep(g.holeWidth) \div 2))
                    + g.holeLeft]

\* a cell put where the new geometry has its (row, col)
ResizedBlock(b, g) ==
    [b EXCEPT !.radius = HexRadius(g.holeWidth) - PX,
              !.x = b.col * ColumnStep(g.holeWidth)
                    + (IF b.row % 2 = 0 THEN 0 ELSE -(ColumnStep(g.holeWidth) \div 2))
                    + g.holeLeft,
              !.y = getGroundY(g) + HexRadius(g.holeWidth) + 20 * PX
                    + b.row * RowOfRadius(HexRadius(g.holeWidth))]

\* resize from the new geometry g and the moved balls on
Resized(w, g, moved) ==
    [g EXCEPT
       !.rowHeight = RowOfRadius(HexRadius(g.holeWidth)),
       !.offsetY = MovedCamera(w, g, moved),
       !.balls = [i \in 1..Len(moved) |->
                    [moved[i] EXCEPT
                        !.gravity = GravityFor(HexRadius(g.holeWidth), w.upgrades.gravity)]],
       !.blocks = [i \in 1..Len(w.blocks) |-> ResizedBlock(w.blocks[i], g)]]

\* resize with the new geometry g in hand: w is the engine before the call
ResizeTo(w, g, rnd) ==
    Resized(w, g,
            MovedBalls(w, g,
                       [i \in 1..Len(w.balls) |->
                           [w.balls[i] EXCEPT !.radius = (HexRadius(g.holeWidth) * 3) \div 10]],
                       rnd))

\* resize(width, height)
resize(w, width, height, rnd) ==
    ResizeTo(w, updateGeometry([w EXCEPT !.canvasWidth = width, !.canvasHeight = height]), rnd)

-----------------------------------------------------------------------------
(* Persistence *)

\* a variant of OrElse that never falls back
OrElseNothing(v, d) == v

\* v || d
OrElse(v, d) == IF v = 0 THEN d ELSE v

\* whether the decoded object has the property
Has(data, field) == field \in DOMAIN data
\* data[field] of a numeric property: a property that is absent reads as
\* undefined, which || treats as it treats 0
Get(data, field) == IF Has(data, field) THEN data[field] ELSE 0

\* new Ball(b.x, b.y, b.radius, '#ff4444', b.dx, b.dy, radius * 0.02, 0.98), then its damage
LoadedBall(b, radius) ==
    [Ball(b.x, b.y, b.radius, b.dx, b.dy, (radius * 2) \div 100)
        EXCEPT !.damage = OrElse(Get(b, "damage"), 1)]

\* data.balls, or the single data.ball of an old snapshot, or the balls as they are
LoadedBalls(w, data) ==
    IF Has(data, "balls")
    THEN [i \in 1..Len(data.balls) |-> LoadedBall(data.balls[i], RadiusOfRow(data.rowHeight))]
    ELSE IF Has(data, "ball")
    THEN << LoadedBall(data.ball, RadiusOfRow(data.rowHeight)) >>
    ELSE w.balls

\* the merge of data.upgrades with the defaults, if the snapshot has upgrades
LoadedUpgrades(w, data) ==
    IF Has(data, "upgrades")
    THEN [damage |-> OrElse(Get(data.upgrades, "damage"), 1),
          gravity |-> OrElse(Get(data.upgrades, "gravity"), 1),
          efficiency |-> OrElse(Get(data.upgrades, "efficiency"), 1),
          bitBoosters |-> OrElse(Get(data.upgrades, "bitBoosters"), 0),
          explosiveBlocks |-> OrElse(Get(data.upgrades, "explosiveBlocks"), 0),
          cashBoosters |-> OrElse(Get(data.upgrades, "cashBoosters"), 0)]
    ELSE w.upgrades

\* new Block(..., b.type || 'normal'), then its maxHp and typeRolled ?? false
LoadedBlock(b) ==
    [Block(b.x, b.y, b.radius, b.hp, b.value, b.row, b.col,
           IF Has(b, "type") THEN b.type ELSE "normal")
        EXCEPT !.maxHp = b.maxHp,
               !.typeRolled = IF Has(b, "typeRolled") THEN b.typeRolled ELSE FALSE]

\* the assignments of loadGame up to the balls
LoadFields(w, data) ==
    [w EXCEPT
       !.money = data.money,
       !.upgrades = LoadedUpgrades(w, data),
       !.bitBoosterTimer = OrElse(Get(data, "bitBoosterTimer"), 0),
       !.cashBoosterTimer = OrElse(Get(data, "cashBoosterTimer"), 0),
       !.prestigeCount = OrElse(Get(data, "prestigeCount"), 0),
       !.lastActiveTime = OrElse(Get(data, "lastActiveTime"), w.now),
       !.offsetY = data.offsetY,
       !.maxRowGenerated = data.maxRowGenerated,
       !.rowHeight = data.rowHeight,
       !.balls = LoadedBalls(w, data)]

\* the engine is made to think it has the saved size
ForceCanvas(w, data) ==
    [w EXCEPT !.blocks = [i \in 1..Len(data.blocks) |-> LoadedBlock(data.blocks[i])],
              !.canvasWidth = data.canvasWidth,
              !.canvasHeight = data.canvasHeight,
              !.holeWidth = data.canvasWidth \div 2,
              !.holeLeft = (data.canvasWidth - data.canvasWidth \div 2) \div 2]

\* targetW and targetH are read back from the fields just overwritten
FitCanvas(w, data) ==
    IF data.canvasWidth # w.canvasWidth \/ data.canvasHeight # w.canvasHeight
    THEN resize(updateGeometry(w), w.canvasWidth, w.canvasHeight, 500)
    ELSE updateGeometry(w)

\* loadGame from data.blocks.map on; obs.load keeps the canvas size the engine
\* had when loadGame was called and the size found in the snapshot
LoadBlocks(w, data) ==
    IF ~data.hasBlocks THEN [w EXCEPT !.obs.result = FALSE, !.obs.threw = TRUE]
    ELSE [FitCanvas(ForceCanvas(w, data), data)
            EXCEPT !.obs.result = TRUE,
                   !.obs.load = [width |-> w.canvasWidth, height |-> w.canvasHeight,
                                 savedWidth |-> data.canvasWidth,
                                 savedHeight |-> data.canvasHeight]]

\* loadGame; obs.result is its return value.  A snapshot that cannot be decoded
\* throws before anything is assigned; one without its cell list throws at
\* data.blocks.map, after the assignments above it.
loadGame(w) ==
    IF ~w.storage.present THEN [w EXCEPT !.obs.result = FALSE]
    ELSE IF ~w.storage.decodable THEN [w EXCEPT !.obs.result = FALSE, !.obs.threw = TRUE]
    ELSE LoadBlocks(LoadFields(w, w.storage), w.storage)

\* the fields of a GameEngine before its constructor body runs
FieldDefaults ==
    [gameState |-> "MENU", menuState |-> "MAIN", activeButton |-> NullButton,
     isResizing |-> FALSE, shopOpenedFromHUD |-> FALSE, money |-> 0,
     upgrades |-> BaseUpgrades, offsetY |-> -300 * PX, maxRowGenerated |-> 0,
     rowHeight |-> 0, canvasWidth |-> 0, canvasHeight |-> 0,
     holeWidth |-> 0, holeLeft |-> 0, holeRight |-> 0,
     notificationText |-> "", notificationTimer |-> 0, autoSaveTimer |-> 0,
     bitBoosterTimer |-> 0, cashBoosterTimer |-> 0, prestigeCount |-> 0,
     lastActiveTime |-> 0, balls |-> <<>>, blocks |-> <<>>]

\* the roll pattern of a pass in which every roll misses
NoHits == [cells |-> {}, roll |-> 99]

\* the constructor body up to loadGame: geometry, rowHeight, the first ball, the camera
Built(g, rnd) ==
    [g EXCEPT
       !.rowHeight = RowOfRadius(HexRadius(g.holeWidth)),
       !.balls = << Ball(g.canvasWidth \div 2, getGroundY(g) - HoverDist(g),
                         (HexRadius(g.holeWidth) * 3) \div 10,
                         Jitter(rnd, 4 * PX), 0, (HexRadius(g.holeWidth) * 2) \div 100) >>,
       !.offsetY = getGroundY(g) - (g.canvasHeight * 3) \div 4]

\* if (this.loadGame()) gameState = 'MENU' else generateRows(0, 40)
AfterLoad(loaded) ==
    IF loaded.obs.result
    THEN [loaded EXCEPT !.gameState = "MENU"]
    ELSE generateRows(loaded, 0, INITIAL_ROWS, NoHits)

\* new GameEngine(width, height) with `stored` in localStorage at time t
constructor(width, height, stored, t, rnd) ==
    AfterLoad(loadGame(Built(updateGeometry(
        [gameState |-> FieldDefaults.gameState, menuState |-> FieldDefaults.menuState,
         activeButton |-> FieldDefaults.activeButton, isResizing |-> FieldDefaults.isResizing,
         shopOpenedFromHUD |-> FieldDefaults.shopOpenedFromHUD, money |-> FieldDefaults.money,
         upgrades |-> FieldDefaults.upgrades, offsetY |-> FieldDefaults.offsetY,
         maxRowGenerated |-> FieldDefaults.maxRowGenerated,
         rowHeight |-> FieldDefaults.rowHeight,
         canvasWidth |-> width, canvasHeight |-> height,
         holeWidth |-> FieldDefaults.holeWidth, holeLeft |-> FieldDefaults.holeLeft,
         holeRight |-> FieldDefaults.holeRight,
         notificationText |-> FieldDefaults.notificationText,
         notificationTimer |-> FieldDefaults.notificationTimer,
         autoSaveTimer |-> FieldDefaults.autoSaveTimer,
         bitBoosterTimer |-> FieldDefaults.bitBoosterTimer,
         cashBoosterTimer |-> FieldDefaults.cashBoosterTimer,
         prestigeCount |-> FieldDefaults.prestigeCount, lastActiveTime |-> t,
         balls |-> FieldDefaults.balls, blocks |-> FieldDefaults.blocks,
         storage |-> stored, now |-> t, obs |-> NoObs]), rnd)))

\* a variant of PrestigeBalls that leaves the balls as they are
KeepBalls(w, numberOfBalls, rnd) == w.balls

\* the balls prestige spawns: numberOfBalls of them, spread over the ground
PrestigeBalls(w, numberOfBalls, rnd) ==
    [i \in 1..numberOfBalls |->
        Ball(w.canvasWidth \div 2
                + ((2 * (i - 1) - (numberOfBalls - 1)) * RadiusOfRow(w.rowHeight)),
             getGroundY(w) - HoverDist(w) + (rnd * 30 * PX) \div 1000 - 15 * PX,
             (RadiusOfRow(w.rowHeight) * 3) \div 10,
             Jitter(rnd, 4 * PX), 0, (RadiusOfRow(w.rowHeight) * 2) \div 100)]

\* prestige() up to generateRows: the count goes up, progress is forfeited
Forfeit(w, rnd) ==
    [w EXCEPT
       !.prestigeCount = w.prestigeCount + 1,
       !.money = 0,
       !.upgrades = BaseUpgrades,
       !.bitBoosterTimer = 0,
       !.cashBoosterTimer = 0,
       !.blocks = <<>>,
       !.maxRowGenerated = 0,
       !.balls = PrestigeBalls(w, w.prestigeCount + 2, rnd),
       !.offsetY = getGroundY(w) - (w.canvasHeight * 3) \div 4]

\* a variant of prestige that generates no rows
PrestigeWithoutRows(w, rnd) ==
    [showNotification(saveGame(Forfeit(w, rnd), FALSE), "Prestige")
        EXCEPT !.obs.prestiged = TRUE]

\* prestige(); the upgrades are back at 0, so no roll of generateRows can hit
prestige(w, rnd) ==
    [showNotification(saveGame(generateRows(Forfeit(w, rnd), 0, INITIAL_ROWS, NoHits), FALSE),
                      "Prestige")
        EXCEPT !.obs.prestiged = TRUE]

-----------------------------------------------------------------------------
(* CollisionResolver: circle against hexagon *)

\* Block.getVertices: the vertex at 30 + 60 * i degrees, i = 0..5
Vertex(block, i) ==
    LET cx == (block.radius * 866) \div 1000
        hy == block.radius \div 2
    IN  CASE i = 0 -> [x |-> block.x + cx, y |-> block.y + hy]
          [] i = 1 -> [x |-> block.x,      y |-> block.y + block.radius]
          [] i = 2 -> [x |-> block.x - cx, y |-> block.y + hy]
          [] i = 3 -> [x |-> block.x - cx, y |-> block.y - hy]
          [] i = 4 -> [x |-> block.x,      y |-> block.y - block.radius]
          [] OTHER -> [x |-> block.x + cx, y |-> block.y - hy]

\* the projection of the ball centre on the edge from p1 to p2, clamped to the
\* segment (t = max(0, min(1, t))), with its squared distance from the centre
EdgePoint(ball, p1, p2) ==
    LET edgeX == p2.x - p1.x
        edgeY == p2.y - p1.y
        lenSq == edgeX * edgeX + edgeY * edgeY
        num == (ball.x - p1.x) * edgeX + (ball.y - p1.y) * edgeY
        projX == IF num <= 0 THEN p1.x ELSE IF num >= lenSq THEN p2.x
                 ELSE p1.x + (num * edgeX) \div lenSq
        projY == IF num <= 0 THEN p1.y ELSE IF num >= lenSq THEN p2.y
                 ELSE p1.y + (num * edgeY) \div lenSq
    IN  [x |-> projX, y |-> projY,
         dSq |-> (ball.x - projX) * (ball.x - projX) + (ball.y - projY) * (ball.y - projY)]

\* if (dSq < closestDistSq) closest = this edge's point
Nearer(p, best) == IF p.dSq < best.dSq THEN p ELSE best

\* the loop over the six edges: the first edge point at the least distance
RECURSIVE ClosestFrom(_, _, _, _)
ClosestFrom(ball, block, i, best) ==
    IF i > 5 THEN best
    ELSE ClosestFrom(ball, block, i + 1,
                     Nearer(EdgePoint(ball, Vertex(block, i), Vertex(block, (i + 1) % 6)), best))
ClosestPoint(ball, block) ==
    ClosestFrom(ball, block, 1, EdgePoint(ball, Vertex(block, 0), Vertex(block, 1)))

\* the response to an overlap at distance dist from the closest point: push the
\* ball out along the normal and, when it moves into the edge, reflect it
Bounce(ball, block, rnd, closest, dist) ==
    LET nx == IF dist = 0 THEN 0 ELSE ball.x - closest.x      \* times dist
        ny == IF dist = 0 THEN -1 ELSE ball.y - closest.y     \* times dist
        len == IF dist = 0 THEN 1 ELSE dist
        overlap == ball.radius - dist
        dot == ball.dx * nx + ball.dy * ny                    \* times len
        pushed == [ball EXCEPT !.x = ball.x + (nx * overlap) \div len,
                               !.y = ball.y + (ny * overlap) \div len]
    IN  IF dot < 0
        THEN [pushed EXCEPT
                !.dx = Elasticity(ball.dx - (2 * dot * nx) \div (len * len))
                       + Jitter(rnd, (block.radius * 5) \div 100),
                !.dy = Elasticity(ball.dy - (2 * dot * ny) \div (len * len))]
        ELSE pushed

\* the narrow phase: a hit when the closest point is inside the ball
Respond(ball, block, rnd, closest) ==
    IF closest.dSq < ball.radius * ball.radius
    THEN [hit |-> TRUE, ball |-> Bounce(ball, block, rnd, closest, Sqrt(closest.dSq))]
    ELSE [hit |-> FALSE, ball |-> ball]

\* checkCollision: [hit, ball], the ball pushed out and reflected when hit
checkCollision(ball, block, rnd) ==
    IF (ball.x - block.x) * (ball.x - block.x) + (ball.y - block.y) * (ball.y - block.y)
          > (block.radius + ball.radius) * (block.radius + ball.radius)
    THEN [hit |-> FALSE, ball |-> ball]
    ELSE Respond(ball, block, rnd, ClosestPoint(ball, block))

-----------------------------------------------------------------------------
(* Rewards and ChainEffectResolver *)

\* Math.ceil(value * (1 + (efficiency - 1) * 0.2) * cashMultiplier)
Reward(value, efficiency, cashMultiplier) ==
    CeilDiv(value * (5 + (efficiency - 1)) * cashMultiplier, 5)

CashMultiplier(w) == IF w.cashBoosterTimer > 0 THEN 2 ELSE 1

\* what obs.removed records of a removal: the cell, what was credited, whether
\* the reward-booster timer was running when it was removed, and both booster
\* timers as they were then (before the effect of the removal)
Removal(w, b, credit, cause) ==
    [row |-> b.row, col |-> b.col, value |-> b.value, type |-> b.type, hp |-> b.hp,
     credit |-> credit, boosted |-> w.cashBoosterTimer > 0,
     efficiency |-> w.upgrades.efficiency, cause |-> cause,
     bit |-> w.bitBoosterTimer, cash |-> w.cashBoosterTimer]

\* a variant of RemoveAt that removes nothing
KeepAt(seq, i) == seq

\* blocks.splice(i, 1)
RemoveAt(seq, i) == SubSeq(seq, 1, i - 1) \o SubSeq(seq, i + 1, Len(seq))

\* blocks.findIndex(b => b.row === row && b.col === col), 0 when there is none
findIndex(bs, row, col) ==
    LET hits == {i \in 1..Len(bs) : bs[i].row = row /\ bs[i].col = col}
    IN  IF hits = {} THEN 0 ELSE CHOOSE i \in hits : \A j \in hits : i <= j

\* a variant of oddRowOffsets whose lower pair is the one of the even rows
oddRowOffsetsSkewed == << <<-1, -1>>, <<-1, 0>>, <<0, -1>>, <<0, 1>>, <<1, 0>>, <<1, 1>> >>
evenRowOffsets == << <<-1, 0>>, <<-1, 1>>, <<0, -1>>, <<0, 1>>, <<1, 0>>, <<1, 1>> >>
oddRowOffsets  == << <<-1, -1>>, <<-1, 0>>, <<0, -1>>, <<0, 1>>, <<1, -1>>, <<1, 0>> >>
\* a variant of NeighbourOffsets that ignores the parity of the row
OffsetsOfEvenRows(row) == evenRowOffsets

NeighbourOffsets(row) == IF row % 2 = 0 THEN evenRowOffsets ELSE oddRowOffsets

\* a variant of BoosterEffect that adds the duration to what is left of the timer
BoosterEffectStacking(w, type) ==
    IF type = "bitBooster"
    THEN [w EXCEPT !.bitBoosterTimer = w.bitBoosterTimer + BIT_BOOSTER_DURATION]
    ELSE IF type = "cashBooster"
    THEN [w EXCEPT !.cashBoosterTimer = w.cashBoosterTimer + CASH_BOOSTER_DURATION]
    ELSE w

\* the effect of a destroyed booster cell
BoosterEffect(w, type) ==
    IF type = "bitBooster" THEN [w EXCEPT !.bitBoosterTimer = BIT_BOOSTER_DURATION]
    ELSE IF type = "cashBooster" THEN [w EXCEPT !.cashBoosterTimer = CASH_BOOSTER_DURATION]
    ELSE w

\* bound on the nesting of destroyAdjacentBlocks; beyond it obs.overrun is set
MaxChainDepth == 12

\* processedBlocks.has(blockId): obs.expanded lists the cells expanded, each with
\* the number of the outermost call it belongs to (one Set per outermost call)
Processed(w, row, col) ==
    \E k \in 1..Len(w.obs.expanded) :
        w.obs.expanded[k] = [call |-> w.obs.calls, row |-> row, col |-> col]

\* destroyAdjacentBlocks(centerBlock, processedBlocks); efficiencyMult and
\* cashMultiplier are read once, on entry
RECURSIVE destroyAdjacentBlocks(_, _, _, _)
RECURSIVE NeighbourLoop(_, _, _, _, _, _, _)
NeighbourLoop(w, row, col, k, efficiency, cashMultiplier, depth) ==
    IF k > 6 \/ w.obs.overrun THEN w
    ELSE
    LET off == NeighbourOffsets(row)[k]
        idx == findIndex(w.blocks, row + off[1], col + off[2])
    IN  IF idx = 0 THEN NeighbourLoop(w, row, col, k + 1, efficiency, cashMultiplier, depth)
        ELSE
        LET adjacentBlock == w.blocks[idx]
            credit == Reward(adjacentBlock.value, efficiency, cashMultiplier)
            gone == [w EXCEPT !.money = w.money + credit,
                              !.blocks = RemoveAt(w.blocks, idx),
                              !.obs.removed = Append(w.obs.removed,
                                                     Removal(w, adjacentBlock, credit, "chain"))]
            after == IF adjacentBlock.type = "explosive"
                     THEN destroyAdjacentBlocks(gone, adjacentBlock.row, adjacentBlock.col,
                                                depth + 1)
                     ELSE BoosterEffect(gone, adjacentBlock.type)
        IN  NeighbourLoop(after, row, col, k + 1, efficiency, cashMultiplier, depth)

destroyAdjacentBlocks(w, row, col, depth) ==
    IF depth > MaxChainDepth THEN [w EXCEPT !.obs.overrun = TRUE]
    ELSE IF Processed(w, row, col) THEN w
    ELSE NeighbourLoop([w EXCEPT !.obs.expanded =
                                    Append(w.obs.expanded,
                                           [call |-> w.obs.calls, row |-> row, col |-> col])],
                       row, col, 1, w.upgrades.efficiency, CashMultiplier(w), depth)

\* destroyAdjacentBlocks(block) as update calls it: a new processedBlocks Set
chainFrom(w, block) ==
    destroyAdjacentBlocks([w EXCEPT !.obs.calls = w.obs.calls + 1], block.row, block.col, 1)

-----------------------------------------------------------------------------
(* The simulation step *)

\* v * timeScale, timeScale = dt / 16.667
TimeScaled(v, dt) == (v * dt * 1000) \div 16667

\* Ball.update(canvas, timeScale)
BallUpdate(ball, width, dt) ==
    LET dy1 == ball.dy + TimeScaled(ball.gravity, dt)
        y1 == ball.y + TimeScaled(dy1, dt)
        x1 == ball.x + TimeScaled(ball.dx, dt)
        atWall == x1 + ball.radius > width \/ x1 - ball.radius < 0
    IN  [ball EXCEPT
           !.dy = dy1, !.y = y1,
           !.dx = IF atWall THEN -Elasticity(ball.dx) ELSE ball.dx,
           !.x = IF x1 + ball.radius > width THEN width - ball.radius
                 ELSE IF x1 - ball.radius < 0 THEN ball.radius
                 ELSE x1]

Clamp(v, m) == IF v > m THEN m ELSE IF v < -m THEN -m ELSE v

\* the velocity clamp: each component within maxVelocity
ClampVelocity(ball, maxVelocity) ==
    [ball EXCEPT !.dy = Clamp(ball.dy, maxVelocity), !.dx = Clamp(ball.dx, maxVelocity)]

\* the hole walls: put the ball back inside and reverse dx, damped
LeftWall(w, ball) ==
    IF ball.x - ball.radius < w.holeLeft
    THEN [ball EXCEPT !.x = w.holeLeft + ball.radius, !.dx = -Elasticity(ball.dx)]
    ELSE ball

RightWall(w, ball) ==
    IF ball.x + ball.radius > w.holeRight
    THEN [ball EXCEPT !.x = w.holeRight - ball.radius, !.dx = -Elasticity(ball.dx)]
    ELSE ball

\* the per-ball part of update: integrate, clamp the velocity, hole walls
StepBall(w, ball, dt) ==
    RightWall(w, LeftWall(w, ClampVelocity(BallUpdate(ball, w.canvasWidth, dt),
                                           (RadiusOfRow(w.rowHeight) * 8) \div 10)))

\* bound on the batches of one catch-up loop; beyond it obs.stalled is set
MaxBatches == 3

\* a variant of CatchUp whose batches start one row early
CatchUpOverlapping(w, pat, left) ==
    IF w.offsetY + (w.canvasHeight * 3) \div 2 > 250 * PX + w.maxRowGenerated * w.rowHeight
    THEN generateRows(w, w.maxRowGenerated - 1, BATCH_ROWS, pat)
    ELSE w

\* while (offsetY + canvasHeight * 1.5 > 250 + maxRowGenerated * rowHeight) generateRows(..., 50)
RECURSIVE CatchUp(_, _, _)
CatchUp(w, pat, left) ==
    IF w.offsetY + (w.canvasHeight * 3) \div 2 > 250 * PX + w.maxRowGenerated * w.rowHeight
    THEN IF left = 0 THEN [w EXCEPT !.obs.stalled = TRUE]
         ELSE CatchUp(generateRows(w, w.maxRowGenerated, BATCH_ROWS, pat), pat, left - 1)
    ELSE w

\* the test that skips a pair: |block.y - ball.y| > 200 || |block.x - ball.x| > 200
TooFar(block, ball) ==
    Abs(block.y - ball.y) > 200 * PX \/ Abs(block.x - ball.x) > 200 * PX

\* the body of `if (this.checkCollision(ball, block))` for ball k and the cell
\* at index i, once the cell has taken the damage: [w, removed]
Struck(w, i, hurt) ==
    IF hurt.hp > 0 THEN [w |-> [w EXCEPT !.blocks[i] = hurt], removed |-> FALSE]
    ELSE
    LET credit == Reward(hurt.value, w.upgrades.efficiency, CashMultiplier(w))
        gone == [w EXCEPT !.blocks = RemoveAt(w.blocks, i),
                          !.money = w.money + credit,
                          !.obs.removed = Append(w.obs.removed, Removal(w, hurt, credit, "hit"))]
    IN  [w |-> IF hurt.type = "explosive" THEN chainFrom(gone, hurt)
               ELSE BoosterEffect(gone, hurt.type),
         removed |-> TRUE]

\* a variant of DamageMultiplier that ignores the damage-booster timer
DamageMultiplierOff(w) == 1

\* damageMultiplier = bitBoosterTimer > 0 ? 2 : 1
DamageMultiplier(w) == IF w.bitBoosterTimer > 0 THEN 2 ELSE 1

\* what obs.hits records of a hit: the ball, the cell and its hp before and after
\* takeDamage, the damage of the ball, the damage-booster timer as it was then,
\* and where checkCollision left the ball: its radius and the square of the
\* distance from its centre to the boundary of the cell
Noted(w, i, k, hurt) ==
    [w EXCEPT !.obs.hits =
        Append(w.obs.hits,
               [ball |-> k, row |-> hurt.row, col |-> hurt.col,
                before |-> w.blocks[i].hp, after |-> hurt.hp,
                damage |-> w.balls[k].damage, bit |-> w.bitBoosterTimer,
                radius |-> w.balls[k].radius,
                gapSq |-> ClosestPoint(w.balls[k], w.blocks[i]).dSq])]

\* Struck, for the hit of ball k
StruckBy(w, i, k, hurt) == Struck(Noted(w, i, k, hurt), i, hurt)

\* the pass over the balls for the cell at index i, from ball k on; [w, removed].
\* c is what checkCollision made of ball k: the ball is written back, and on a
\* hit the cell takes ball.damage * damageMultiplier
RECURSIVE BallLoop(_, _, _, _)
RECURSIVE AfterCheck(_, _, _, _, _)
RECURSIVE AfterStrike(_, _, _, _)
AfterStrike(r, i, k, rnd) ==
    IF r.removed THEN r ELSE BallLoop(r.w, i, k + 1, rnd)

AfterCheck(w, i, k, rnd, c) ==
    IF ~c.hit THEN BallLoop([w EXCEPT !.balls[k] = c.ball], i, k + 1, rnd)
    ELSE AfterStrike(StruckBy([w EXCEPT !.balls[k] = c.ball], i, k,
                              takeDamage(w.blocks[i],
                                         w.balls[k].damage * DamageMultiplier(w))),
                     i, k, rnd)

BallLoop(w, i, k, rnd) ==
    IF k > Len(w.balls) THEN [w |-> w, removed |-> FALSE]
    ELSE IF TooFar(w.blocks[i], w.balls[k]) THEN BallLoop(w, i, k + 1, rnd)
    ELSE AfterCheck(w, i, k, rnd, checkCollision(w.balls[k], w.blocks[i], rnd))

\* the greatest index at or below i whose cell some ball is not too far from, 0
\* when there is none (the pass does nothing at the indices in between)
NextNear(w, i) ==
    LET near == {j \in 1..Min(i, Len(w.blocks)) :
                    \E k \in 1..Len(w.balls) : ~TooFar(w.blocks[j], w.balls[k])}
    IN  IF near = {} THEN 0 ELSE CHOOSE j \in near : \A m \in near : j >= m

\* for (let i = blocks.length - 1; i >= 0; i--): indices here are 1-based.
\* Reading an index past the end of the list yields undefined, and block.y throws.
\* r is the result of the pass over the balls at index i.
RECURSIVE CollisionPass(_, _, _)
RECURSIVE PassFrom(_, _, _)
PassFrom(r, i, rnd) ==
    IF r.removed THEN CollisionPass(r.w, i - 1, rnd)
    ELSE CollisionPass(r.w, NextNear(r.w, i - 1), rnd)

CollisionPass(w, i, rnd) ==
    IF i < 1 \/ w.obs.overrun \/ w.obs.stalled THEN w
    ELSE IF i > Len(w.blocks) THEN [w EXCEPT !.obs.threw = TRUE]
    ELSE PassFrom(BallLoop(w, i, 1, rnd), i, rnd)

\* the lazy type roll of update, for cells not yet rolled
LazyRoll(w, pat) ==
    IF w.upgrades.bitBoosters = 0 /\ w.upgrades.explosiveBlocks = 0
       /\ w.upgrades.cashBoosters = 0
    THEN w
    ELSE [w EXCEPT !.blocks =
            [i \in 1..Len(w.blocks) |->
                LET b == w.blocks[i]
                IN  IF b.typeRolled \/ b.x < w.holeLeft \/ b.x > w.holeRight
                       \/ ~(\E k \in 1..Len(w.balls) :
                                Abs(b.y - w.balls[k].y) <= w.canvasHeight * 2)
                    THEN b
                    ELSE [b EXCEPT
                            !.typeRolled = TRUE,
                            !.type = RolledType(RollOf(pat, b.row, b.col), w.upgrades, b.type)]]]

\* autoSaveTimer += dt; at AUTO_SAVE_INTERVAL save silently and start over
AutoSave(w, dt) ==
    IF w.autoSaveTimer + dt >= AUTO_SAVE_INTERVAL
    THEN [saveGame([w EXCEPT !.autoSaveTimer = w.autoSaveTimer + dt], FALSE)
            EXCEPT !.autoSaveTimer = 0]
    ELSE [w EXCEPT !.autoSaveTimer = w.autoSaveTimer + dt]

\* a variant of CountedDown without the floor at 0
CountedDownUnfloored(timer, span) == IF timer > 0 THEN timer - span ELSE timer

\* a running timer loses span, stopping at 0
CountedDown(timer, span) == IF timer > 0 THEN Max(0, timer - span) ELSE timer

CountDown(w, dt) ==
    [w EXCEPT !.bitBoosterTimer = CountedDown(w.bitBoosterTimer, dt),
              !.cashBoosterTimer = CountedDown(w.cashBoosterTimer, dt)]

\* the PLAYING-only head of update: auto-save, booster countdowns, lazy roll
PlayingHead(w, dt, pat) == LazyRoll(CountDown(AutoSave(w, dt), dt), pat)

\* if (notificationTimer > 0) notificationTimer -= dt
TickNotification(w, dt) ==
    IF w.notificationTimer > 0
    THEN [w EXCEPT !.notificationTimer = w.notificationTimer - dt]
    ELSE w

\* every ball integrated, clamped and kept between the hole walls
StepBalls(w, dt) ==
    [w EXCEPT !.balls = [k \in 1..Len(w.balls) |-> StepBall(w, w.balls[k], dt)],
              !.obs.physics = TRUE]

\* the camera eases a tenth of the way to a third of the canvas above the deepest ball
Follow(w) ==
    [w EXCEPT !.offsetY = w.offsetY
                 + ((deepestBall(w.balls).y - w.canvasHeight \div 3) - w.offsetY) \div 10]

\* the row the deepest ball is in: floor((y - startY) / rowHeight), where row r
\* of the cells is centred at startY + r * rowHeight
DeepestRow(w) ==
    (deepestBall(w.balls).y - (getGroundY(w) + RadiusOfRow(w.rowHeight) + 20 * PX))
        \div w.rowHeight

\* what obs.tested records when the collision pass begins: the frontier and the
\* row of the deepest ball at that point; a catch-up loop that does not end
\* never gets there
Tested(w) ==
    IF w.obs.stalled THEN w
    ELSE [w EXCEPT !.obs.tested = [frontier |-> w.maxRowGenerated, row |-> DeepestRow(w)]]

\* the collision pass, from the last index down
Collide(w, rnd) == CollisionPass(Tested(w), NextNear(w, Len(w.blocks)), rnd)

\* a variant of Simulate without the early return
SimulateAlways(w, dt, pat, rnd) ==
    Collide(CatchUp(Follow(StepBalls(w, dt)), pat, MaxBatches), rnd)

\* a variant of Simulate that tests for collisions before it generates rows
SimulateCollidingFirst(w, dt, pat, rnd) ==
    IF w.gameState = "MENU" \/ w.gameState = "PAUSED" \/ w.isResizing THEN w
    ELSE CatchUp(Collide(Follow(StepBalls(w, dt)), rnd), pat, MaxBatches)

\* update(dt) from the early return on: nothing more in MENU or PAUSED or during a resize
Simulate(w, dt, pat, rnd) ==
    IF w.gameState = "MENU" \/ w.gameState = "PAUSED" \/ w.isResizing THEN w
    ELSE Collide(CatchUp(Follow(StepBalls(w, dt)), pat, MaxBatches), rnd)

\* update(dt)
update(w, dt, pat, rnd) ==
    IF w.gameState = "PLAYING"
    THEN Simulate(PlayingHead(TickNotification(w, dt), dt, pat), dt, pat, rnd)
    ELSE Simulate(TickNotification(w, dt), dt, pat, rnd)

-----------------------------------------------------------------------------
(* ProgressionState: prices and purchases *)

Infinity == 2147483647

\* getShopPrices()[type]; Math.pow(1.4, 2) is 1.9599999999999997 in doubles, so
\* the gravity price at level 3 is 97; every other level in range agrees with
\* the exact quotient
ShopPrice(up, type) ==
    CASE type = "damage" -> (100 * Pow(3, up.damage - 1)) \div Pow(2, up.damage - 1)
      [] type = "gravity" -> IF up.gravity = 3 THEN 97
                             ELSE (50 * Pow(7, up.gravity - 1)) \div Pow(5, up.gravity - 1)
      [] type = "efficiency" ->
            (200 * Pow(8, up.efficiency - 1)) \div Pow(5, up.efficiency - 1)
      [] OTHER -> IF up[type] >= MAX_BLOCK_LEVEL THEN Infinity
                  ELSE (150 * Pow(3, up[type])) \div Pow(2, up[type])

\* a variant of Purchase that takes no money
PurchaseFree(w, type, cost) == [w EXCEPT !.upgrades[type] = w.upgrades[type] + 1]

\* money -= cost; upgrades[type]++
Purchase(w, type, cost) ==
    [w EXCEPT !.money = w.money - cost, !.upgrades[type] = w.upgrades[type] + 1]

\* the effect of a purchase on the balls or on the live cells
ApplyUpgrade(w, type, pat) ==
    CASE type = "damage" ->
            [w EXCEPT !.balls = [k \in 1..Len(w.balls) |->
                [w.balls[k] EXCEPT !.damage = w.upgrades.damage]]]
      [] type = "gravity" ->
            [w EXCEPT !.balls = [k \in 1..Len(w.balls) |->
                [w.balls[k] EXCEPT
                    !.gravity = GravityFor(RadiusOfRow(w.rowHeight), w.upgrades.gravity)]]]
      [] type \in BlockUpgradeTypes -> rerollExistingBlocks(w, pat)
      [] OTHER -> w

\* a variant of Reject that shows nothing
RejectSilently(w, text) == [w EXCEPT !.obs.result = FALSE]

\* a refused purchase: showNotification(text); return false
Reject(w, text) == [showNotification(w, text) EXCEPT !.obs.result = FALSE]

\* a variant of Buy that sells below the cap whether or not the money covers the cost
BuyOnCredit(w, type, pat) ==
    IF type \in BlockUpgradeTypes /\ w.upgrades[type] >= MAX_BLOCK_LEVEL
    THEN Reject(w, "Max level reached!")
    ELSE [saveGame(showNotification(ApplyUpgrade(Purchase(w, type, ShopPrice(w.upgrades, type)),
                                                 type, pat),
                                    "Upgraded!"), FALSE)
            EXCEPT !.obs.result = TRUE]

\* buyUpgrade(type) once obs.buy names it; obs.result is its return value
Buy(w, type, pat) ==
    IF type \in BlockUpgradeTypes /\ w.upgrades[type] >= MAX_BLOCK_LEVEL
    THEN Reject(w, "Max level reached!")
    ELSE IF w.money >= ShopPrice(w.upgrades, type)
    THEN [saveGame(showNotification(ApplyUpgrade(Purchase(w, type, ShopPrice(w.upgrades, type)),
                                                 type, pat),
                                    "Upgraded!"), FALSE)
            EXCEPT !.obs.result = TRUE]
    ELSE Reject(w, "Not enough money!")

\* buyUpgrade(type)
buyUpgrade(w, type, pat) == Buy([w EXCEPT !.obs.buy = type], type, pat)

-----------------------------------------------------------------------------
(* Lifecycle and tab visibility *)

\* a variant of togglePause whose second branch does not test for PAUSED
togglePauseAnywhere(w) ==
    IF w.gameState = "PLAYING"
    THEN [w EXCEPT !.gameState = "PAUSED", !.menuState = "MAIN",
                   !.notificationTimer = 0, !.notificationText = ""]
    ELSE [w EXCEPT !.gameState = "PLAYING", !.activeButton = NullButton]

togglePause(w) ==
    IF w.gameState = "PLAYING"
    THEN [w EXCEPT !.gameState = "PAUSED", !.menuState = "MAIN",
                   !.notificationTimer = 0, !.notificationText = ""]
    ELSE IF w.gameState = "PAUSED"
    THEN [w EXCEPT !.gameState = "PLAYING", !.activeButton = NullButton]
    ELSE w

\* depth in half rows of the deepest ball, as the prestige button and the
\* offline estimator compute it: max(0, floor((y - startY) / rowHeight * 2))
CurrentDepth(w) ==
    LET radius == RadiusOfRow(w.rowHeight)
        startY == getGroundY(w) + radius + 20 * PX
    IN  Max(0, ((deepestBall(w.balls).y - startY) * 2) \div w.rowHeight)

\* floor(totalDamage / avgBlockHp * avgBlockValue * efficiencyMult * elapsedSeconds) at
\* depth currentRow, with hitsPerSecond = 2 and efficiencyMult in fifths:
\* floor(gain * cappedElapsed / per), with the quotient of cappedElapsed by per
\* taken out first to stay within the integers
OfflineEarnings(w, cappedElapsed, currentRow) ==
    LET gain == Len(w.balls) * w.balls[1].damage * 2
                  * (10 + (currentRow * 5) \div 10)
                  * (5 + (w.upgrades.efficiency - 1))
        per  == (1 + (currentRow * 2) \div 10) * 5 * 1000
    IN  gain * (cappedElapsed \div per) + (gain * (cappedElapsed % per)) \div per

\* if (offlineEarnings > 0): credit, notify, save; obs.offline records that the
\* estimator ran and what it worked out
CreditOffline(w, offlineEarnings) ==
    IF offlineEarnings > 0
    THEN saveGame(showNotification([w EXCEPT !.money = w.money + offlineEarnings,
                                             !.obs.offline.ran = TRUE,
                                             !.obs.offline.earned = offlineEarnings],
                                   "Welcome back!"), FALSE)
    ELSE [w EXCEPT !.obs.offline.ran = TRUE, !.obs.offline.earned = offlineEarnings]

\* a variant of simulateOfflineProgress without the 24 hour cap
simulateOfflineProgressUncapped(w, elapsedMs) ==
    CountDown(CreditOffline(w, OfflineEarnings(w, elapsedMs, CurrentDepth(w))), elapsedMs)

simulateOfflineProgress(w, elapsedMs) ==
    CountDown(CreditOffline(w, OfflineEarnings(w, Min(elapsedMs, MAX_OFFLINE_TIME),
                                               CurrentDepth(w))),
              Min(elapsedMs, MAX_OFFLINE_TIME))

onTabHidden(w) ==
    IF w.gameState = "PLAYING"
    THEN saveGame([w EXCEPT !.lastActiveTime = w.now], FALSE)
    ELSE w

\* a variant of onTabVisible that reconciles in every game state
onTabVisibleAnyState(w) ==
    IF w.now - w.lastActiveTime > 1000
    THEN [simulateOfflineProgress(w, w.now - w.lastActiveTime)
            EXCEPT !.lastActiveTime = w.now, !.obs.offline.elapsed = w.now - w.lastActiveTime]
    ELSE [w EXCEPT !.lastActiveTime = w.now, !.obs.offline.elapsed = w.now - w.lastActiveTime]

\* onTabVisible(); obs.offline.elapsed is the time it found elapsed
onTabVisible(w) ==
    IF w.gameState = "PLAYING" /\ w.now - w.lastActiveTime > 1000
    THEN [simulateOfflineProgress(w, w.now - w.lastActiveTime)
            EXCEPT !.lastActiveTime = w.now, !.obs.offline.elapsed = w.now - w.lastActiveTime]
    ELSE [w EXCEPT !.lastActiveTime = w.now, !.obs.offline.elapsed = w.now - w.lastActiveTime]

-----------------------------------------------------------------------------
(* UiShell: layout of the clickable regions and the pointer handler *)

\* n * scale, where scale = min(canvasWidth, canvasHeight) / 1000
Scaled(w, n) == (n * Min(w.canvasWidth, w.canvasHeight)) \div 1000

Rect(left, top, width, height) == [left |-> left, top |-> top, width |-> width, height |-> height]

Inside(x, y, r) ==
    x >= r.left /\ x <= r.left + r.width /\ y >= r.top /\ y <= r.top + r.height

\* boxH of getPauseMenuLayout, by menu screen
BoxHeight(w) ==
    IF w.menuState = "MAIN"
    THEN Scaled(w, 50) + Scaled(w, 60) + Scaled(w, 25) + Scaled(w, 55) * 4 + Scaled(w, 25) * 3
           + Scaled(w, 30) + Scaled(w, 50)
    ELSE IF w.menuState = "SHOP"
    THEN Scaled(w, 50) + Scaled(w, 60) + Scaled(w, 25)
           + Scaled(w, 30) + Scaled(w, 15)
           + (Scaled(w, 75) + Scaled(w, 15)) * 3
           + Scaled(w, 30) + Scaled(w, 15)
           + (Scaled(w, 75) + Scaled(w, 15)) * 3
           + Scaled(w, 55) + Scaled(w, 50)
    ELSE Scaled(w, 520)

\* getPauseMenuLayout from btnW and boxH on
LayoutOf(w, btnW, boxH, boxY) ==
    [margin |-> Scaled(w, 50), gap |-> Scaled(w, 25), btnW |-> btnW,
     btnHeight |-> Scaled(w, 55),
     btnX |-> w.canvasWidth \div 2 - btnW \div 2, boxY |-> boxY, boxH |-> boxH,
     resumeBtnY |-> boxY + Scaled(w, 50) + Scaled(w, 60) + Scaled(w, 25),
     shopBtnY |-> boxY + Scaled(w, 50) + Scaled(w, 60) + Scaled(w, 25)
                    + (Scaled(w, 55) + Scaled(w, 25)),
     settingsBtnY |-> boxY + Scaled(w, 50) + Scaled(w, 60) + Scaled(w, 25)
                        + (Scaled(w, 55) + Scaled(w, 25)) * 2,
     saveBtnY |-> boxY + Scaled(w, 50) + Scaled(w, 60) + Scaled(w, 25)
                    + (Scaled(w, 55) + Scaled(w, 25)) * 3,
     backBtnY |-> boxY + boxH - Scaled(w, 55) - Scaled(w, 50)]

BoxOf(w, btnW, boxH) == LayoutOf(w, btnW, boxH, w.canvasHeight \div 2 - boxH \div 2)

getPauseMenuLayout(w) ==
    BoxOf(w, IF w.menuState = "SHOP" THEN Scaled(w, 400) ELSE Scaled(w, 200), BoxHeight(w))

\* a pause-menu button of layout l: btnHeight plus the 5 * scale slack of the hit test
MenuButton(w, l, top) == Rect(l.btnX, top, l.btnW, l.btnHeight + Scaled(w, 5))

\* the start / continue button of the title screen
StartTop(w, boxY) ==
    (boxY + Scaled(w, 250) \div 2)
       - (Scaled(w, 50) * 2 + Scaled(w, 25) + Scaled(w, 55)) \div 2 - Scaled(w, 15)
       + Scaled(w, 50) * 2 + Scaled(w, 25)

StartRect(w) ==
    Rect(w.canvasWidth \div 2 - Scaled(w, 200) \div 2,
         StartTop(w, w.canvasHeight \div 2 - Scaled(w, 250) \div 2 - Scaled(w, 180)),
         Scaled(w, 200), Scaled(w, 50) + Scaled(w, 5))

ResumeRect(w, l) == MenuButton(w, l, l.resumeBtnY)
ShopRect(w, l) == MenuButton(w, l, l.shopBtnY)
SettingsRect(w, l) == MenuButton(w, l, l.settingsBtnY)
SaveRect(w, l) == MenuButton(w, l, l.saveBtnY)
BackRect(w, l) == MenuButton(w, l, l.backBtnY)

\* startY of the settings and shop screens
SettingsStartY(w, l) == l.boxY + l.margin + Scaled(w, 60) + l.gap

\* the volume slider with its 10 pixel slack on every side
SliderRect(w, l) ==
    Rect(l.btnX + Scaled(w, 105) - 10 * PX,
         SettingsStartY(w, l) + Scaled(w, 20) - Scaled(w, 24) \div 2 - 10 * PX,
         l.btnW - Scaled(w, 105) + 20 * PX,
         Scaled(w, 24) + 20 * PX)

\* the k-th toggle (0..2): show HP, block sounds, bounce sounds
ToggleRect(w, l, k) ==
    Rect(l.btnX,
         SettingsStartY(w, l) + Scaled(w, 40) + Scaled(w, 15)
            + k * (Scaled(w, 45) + Scaled(w, 15)),
         l.btnW, Scaled(w, 45) + Scaled(w, 5))

ShopItems == << "damage", "gravity", "efficiency", "bitBoosters", "cashBoosters", "explosiveBlocks" >>

\* the k-th shop item (1..6); the second section header sits after the third
ItemRect(w, l, k) ==
    Rect(l.btnX,
         SettingsStartY(w, l) + (Scaled(w, 30) + Scaled(w, 15))
            + (k - 1) * (Scaled(w, 75) + Scaled(w, 15))
            + (IF k > 3 THEN Scaled(w, 30) + Scaled(w, 15) ELSE 0),
         l.btnW, Scaled(w, 75))

PauseRect(w) == Rect(Scaled(w, 20), Scaled(w, 20), Scaled(w, 60), Scaled(w, 60))
SaveIconRect(w) ==
    Rect(Scaled(w, 20), w.canvasHeight - Scaled(w, 60) - Scaled(w, 20),
         Scaled(w, 60), Scaled(w, 60))
HudRect(w) ==
    Rect(w.canvasWidth - Scaled(w, 200) - Scaled(w, 20), Scaled(w, 20),
         Scaled(w, 200), Scaled(w, 80))
PrestigeRect(w) ==
    Rect((w.canvasWidth - Scaled(w, 180)) \div 2,
         w.canvasHeight - Scaled(w, 50) - Scaled(w, 20),
         Scaled(w, 180), Scaled(w, 50) + Scaled(w, 5))

\* the press / release protocol shared by the plain buttons: a press arms the
\* button, a release on the armed button runs its effect and disarms it
Button(w, type, id, effect) ==
    IF type = "mousedown" THEN [w EXCEPT !.activeButton = id]
    ELSE IF type = "mouseup" /\ w.activeButton = id
    THEN [effect EXCEPT !.activeButton = NullButton]
    ELSE w

ReleaseElsewhere(w, type) ==
    IF type = "mouseup" THEN [w EXCEPT !.activeButton = NullButton] ELSE w

\* the release on the start button, after loadGame: a game that did not load
\* launches its balls
StartGame(tried, rnd) ==
    IF tried.obs.result
    THEN [tried EXCEPT !.gameState = "PLAYING", !.activeButton = NullButton]
    ELSE [tried EXCEPT
            !.gameState = "PLAYING", !.activeButton = NullButton,
            !.balls = [k \in 1..Len(tried.balls) |->
                         [tried.balls[k] EXCEPT
                             !.dx = Jitter(rnd, (RadiusOfRow(tried.rowHeight) * 15) \div 100),
                             !.dy = (RadiusOfRow(tried.rowHeight) * 4) \div 10]]]

\* the MENU branch: the start / continue button
MenuInput(w, type, x, y, rnd) ==
    IF Inside(x, y, StartRect(w))
    THEN IF type = "mousedown" THEN [w EXCEPT !.activeButton = "start"]
         ELSE IF type = "mouseup" /\ w.activeButton = "start" THEN StartGame(loadGame(w), rnd)
         ELSE w
    ELSE ReleaseElsewhere(w, type)

\* the PAUSED branch, main pause menu
PauseMainInput(w, l, type, x, y) ==
    IF Inside(x, y, ResumeRect(w, l)) THEN Button(w, type, "resume", togglePause(w))
    ELSE IF Inside(x, y, ShopRect(w, l))
    THEN Button(w, type, "shop", [w EXCEPT !.shopOpenedFromHUD = FALSE, !.menuState = "SHOP"])
    ELSE IF Inside(x, y, SettingsRect(w, l))
    THEN Button(w, type, "settings", [w EXCEPT !.menuState = "SETTINGS"])
    ELSE IF Inside(x, y, SaveRect(w, l)) THEN Button(w, type, "save", saveGame(w, TRUE))
    ELSE ReleaseElsewhere(w, type)

\* the settings screen, volume slider: a press or a drag on it raises isResizing
SliderDrag(w, l, type, x, y) ==
    IF (type = "mousedown" \/ (type = "mousemove" /\ w.isResizing))
          /\ Inside(x, y, SliderRect(w, l))
    THEN [w EXCEPT !.isResizing = TRUE,
                   !.activeButton = IF type = "mousedown" THEN "volume" ELSE w.activeButton]
    ELSE w

\* if (type === 'mouseup') isResizing = false
SliderRelease(w, type) ==
    IF type = "mouseup" THEN [w EXCEPT !.isResizing = FALSE] ELSE w

\* the three toggles; what they toggle is a setting, which the model does not carry
SettingsToggles(w, l, type, x, y) ==
    IF Inside(x, y, ToggleRect(w, l, 0)) THEN Button(w, type, "toggle_hp", w)
    ELSE IF Inside(x, y, ToggleRect(w, l, 1)) THEN Button(w, type, "toggle_blocks", w)
    ELSE IF Inside(x, y, ToggleRect(w, l, 2)) THEN Button(w, type, "toggle_bounce", w)
    ELSE w

\* the back button of the settings screen, and the release off it
SettingsBack(w, l, type, x, y) ==
    IF Inside(x, y, BackRect(w, l))
    THEN Button(w, type, "back",
                [w EXCEPT !.notificationTimer = 0, !.notificationText = "",
                          !.menuState = "MAIN"])
    ELSE IF type = "mouseup" /\ ~w.isResizing THEN [w EXCEPT !.activeButton = NullButton]
    ELSE w

\* the PAUSED branch, settings screen
SettingsInput(w, l, type, x, y) ==
    SettingsBack(SettingsToggles(SliderRelease(SliderDrag(w, l, type, x, y), type),
                                 l, type, x, y),
                 l, type, x, y)

\* the index of the first shop item under the pointer, 0 if none
ItemAt(w, l, x, y) ==
    IF \E k \in 1..6 : Inside(x, y, ItemRect(w, l, k))
    THEN CHOOSE k \in 1..6 : Inside(x, y, ItemRect(w, l, k))
                               /\ \A j \in 1..(k - 1) : ~Inside(x, y, ItemRect(w, l, j))
    ELSE 0

\* the back button of the shop: to the game when the shop was opened from the
\* HUD, to the pause menu otherwise
ShopBack(w, type) ==
    IF type = "mousedown" THEN [w EXCEPT !.activeButton = "back"]
    ELSE IF type = "mouseup"
    THEN IF w.activeButton = "back"
         THEN IF w.shopOpenedFromHUD
              THEN [w EXCEPT !.notificationTimer = 0, !.notificationText = "",
                             !.activeButton = NullButton,
                             !.gameState = "PLAYING", !.shopOpenedFromHUD = FALSE]
              ELSE [w EXCEPT !.notificationTimer = 0, !.notificationText = "",
                             !.activeButton = NullButton, !.menuState = "MAIN"]
         ELSE [w EXCEPT !.activeButton = NullButton]
    ELSE w

\* a pointer event on the shop item `item`: a press arms it when it can be
\* bought, every release runs buyUpgrade
ItemInput(w, type, item, pat) ==
    IF type = "mousedown" /\ w.money >= ShopPrice(w.upgrades, item)
          /\ ~(item \in BlockUpgradeTypes /\ w.upgrades[item] >= MAX_BLOCK_LEVEL)
    THEN [w EXCEPT !.activeButton = "buy_" \o item]
    ELSE IF type = "mouseup"
    THEN [buyUpgrade(w, item, pat) EXCEPT !.activeButton = NullButton]
    ELSE w

\* the PAUSED branch, shop
ShopInput(w, l, type, x, y, pat) ==
    IF Inside(x, y, BackRect(w, l)) THEN ShopBack(w, type)
    ELSE IF ItemAt(w, l, x, y) > 0 THEN ItemInput(w, type, ShopItems[ItemAt(w, l, x, y)], pat)
    ELSE ReleaseElsewhere(w, type)

\* a variant of PrestigeInput that does not look at the depth
PrestigeInputAtAnyDepth(w, type, rnd) ==
    IF type = "mousedown" THEN [w EXCEPT !.activeButton = "prestige"]
    ELSE IF type = "mouseup" /\ w.activeButton = "prestige"
    THEN [prestige(w, rnd) EXCEPT !.activeButton = NullButton]
    ELSE w

\* the prestige button: armed and run only at depth PRESTIGE_DEPTH or more
PrestigeInput(w, type, rnd) ==
    IF type = "mousedown" /\ CurrentDepth(w) >= PRESTIGE_DEPTH
    THEN [w EXCEPT !.activeButton = "prestige"]
    ELSE IF type = "mouseup" /\ w.activeButton = "prestige"
              /\ CurrentDepth(w) >= PRESTIGE_DEPTH
    THEN [prestige(w, rnd) EXCEPT !.activeButton = NullButton]
    ELSE w

\* the PLAYING branch: HUD box, pause icon, save icon, prestige button
PlayingInput(w, type, x, y, rnd) ==
    IF Inside(x, y, HudRect(w))
    THEN Button(w, type, "hud_info",
                [w EXCEPT !.shopOpenedFromHUD = TRUE, !.gameState = "PAUSED",
                          !.menuState = "SHOP"])
    ELSE IF Inside(x, y, PauseRect(w)) THEN Button(w, type, "pause_icon", togglePause(w))
    ELSE IF Inside(x, y, SaveIconRect(w)) THEN Button(w, type, "save_icon", saveGame(w, TRUE))
    ELSE IF Inside(x, y, PrestigeRect(w)) THEN PrestigeInput(w, type, rnd)
    ELSE ReleaseElsewhere(w, type)

\* the PAUSED branch, by menu screen
PausedInput(w, l, type, x, y, pat) ==
    IF w.menuState = "MAIN" THEN PauseMainInput(w, l, type, x, y)
    ELSE IF w.menuState = "SETTINGS" THEN SettingsInput(w, l, type, x, y)
    ELSE IF w.menuState = "SHOP" THEN ShopInput(w, l, type, x, y, pat)
    ELSE w

handleInput(w, type, x, y, rnd, pat) ==
    IF w.gameState = "MENU" THEN MenuInput(w, type, x, y, rnd)
    ELSE IF w.gameState = "PAUSED"
    THEN PausedInput(w, getPauseMenuLayout(w), type, x, y, pat)
    ELSE IF w.gameState = "PLAYING" THEN PlayingInput(w, type, x, y, rnd)
    ELSE w

-----------------------------------------------------------------------------
(* The state machine: an engine inside its canvas shell *)

\* the engine, localStorage and the clock as one record, with a clean obs
World ==
    [gameState |-> gameState, menuState |-> menuState, activeButton |-> activeButton,
     isResizing |-> isResizing, shopOpenedFromHUD |-> shopOpenedFromHUD,
     money |-> money, upgrades |-> upgrades, offsetY |-> offsetY,
     maxRowGenerated |-> maxRowGenerated, rowHeight |-> rowHeight,
     canvasWidth |-> canvasWidth, canvasHeight |-> canvasHeight,
     holeWidth |-> holeWidth, holeLeft |-> holeLeft, holeRight |-> holeRight,
     notificationText |-> notificationText, notificationTimer |-> notificationTimer,
     autoSaveTimer |-> autoSaveTimer,
     bitBoosterTimer |-> bitBoosterTimer, cashBoosterTimer |-> cashBoosterTimer,
     prestigeCount |-> prestigeCount, lastActiveTime |-> lastActiveTime,
     balls |-> balls, blocks |-> blocks,
     storage |-> storage, now |-> now, obs |-> NoObs]

\* the engine fields, localStorage and the clock become those of w
Commit(w) ==
    /\ gameState' = w.gameState
    /\ menuState' = w.menuState
    /\ activeButton' = w.activeButton
    /\ isResizing' = w.isResizing
    /\ shopOpenedFromHUD' = w.shopOpenedFromHUD
    /\ money' = w.money
    /\ upgrades' = w.upgrades
    /\ offsetY' = w.offsetY
    /\ maxRowGenerated' = w.maxRowGenerated
    /\ rowHeight' = w.rowHeight
    /\ canvasWidth' = w.canvasWidth
    /\ canvasHeight' = w.canvasHeight
    /\ holeWidth' = w.holeWidth
    /\ holeLeft' = w.holeLeft
    /\ holeRight' = w.holeRight
    /\ notificationText' = w.notificationText
    /\ notificationTimer' = w.notificationTimer
    /\ autoSaveTimer' = w.autoSaveTimer
    /\ bitBoosterTimer' = w.bitBoosterTimer
    /\ cashBoosterTimer' = w.cashBoosterTimer
    /\ prestigeCount' = w.prestigeCount
    /\ lastActiveTime' = w.lastActiveTime
    /\ balls' = w.balls
    /\ blocks' = w.blocks
    /\ storage' = w.storage
    /\ now' = w.now

\* a run that overran a loop bound stands for a hung page: nothing more happens
Hung == op.obs.overrun \/ op.obs.stalled

Centre(r) == << r.left + r.width \div 2, r.top + r.height \div 2 >>
Outside(w) == << 0, w.canvasHeight \div 2 >>

\* where the pointer may be: the middle of every region of the current screen,
\* and a point off every region
PausedTargets(w, l) ==
    IF w.menuState = "MAIN"
    THEN {Centre(ResumeRect(w, l)), Centre(ShopRect(w, l)), Centre(SettingsRect(w, l)),
          Centre(SaveRect(w, l))}
    ELSE IF w.menuState = "SETTINGS"
    THEN {Centre(SliderRect(w, l)), Centre(BackRect(w, l))}
           \cup {Centre(ToggleRect(w, l, k)) : k \in 0..2}
    ELSE {Centre(BackRect(w, l))} \cup {Centre(ItemRect(w, l, k)) : k \in 1..6}

Targets(w) ==
    {Outside(w)} \cup
    (IF w.gameState = "MENU" THEN {Centre(StartRect(w))}
     ELSE IF w.gameState = "PLAYING"
     THEN {Centre(HudRect(w)), Centre(PauseRect(w)), Centre(SaveIconRect(w)),
           Centre(PrestigeRect(w))}
     ELSE PausedTargets(w, getPauseMenuLayout(w)))

EventTypes == {"mousedown", "mouseup", "mousemove"}

-----------------------------------------------------------------------------
(* Inputs *)

\* window sizes (innerWidth x innerHeight)
Desktop == [width |-> 936 * PX, height |-> 1000 * PX]
Wide == [width |-> 1872 * PX, height |-> 1000 * PX]
Viewports == {Desktop, Wide}
\* a window without width, as a collapsed frame reports it
Flat == [width |-> 0, height |-> 1000 * PX]
\* a window resize may also end at a lower window
Short == [width |-> 936 * PX, height |-> 600 * PX]
ResizeViewports == Viewports \cup {Short}

\* frame times: dt = min(time - lastTime, 50)
MaxDt == 50
DtSet == {16, MaxDt}

\* Date.now() when the page is opened
StartTime == 1000

\* how long the tab stays hidden
AwayTimes == {0, 500, 2000, 5000, MAX_OFFLINE_TIME, MAX_OFFLINE_TIME + 3600000}

\* roll patterns of a pass: every roll misses, or the cells around the start
\* of the shaft, and the first cell of the odd rows among them (the half cell
\* left of the hole), draw a low roll
HitCells == {<<r, c>> : r \in {0, 1, 2, 3, INITIAL_ROWS, INITIAL_ROWS + 1}, c \in 3..6}
               \cup {<<r, 0>> : r \in {1, 3, INITIAL_ROWS + 1}}
Patterns == {NoHits, [cells |-> HitCells, roll |-> 0], [cells |-> HitCells, roll |-> 10]}

\* the highest level a run may buy on the damage, gravity and efficiency tracks
MaxLevel == 7

\* what op records: the operation, the gameState it started from, what it observed
Op(name, w) == [name |-> name, from |-> gameState, obs |-> w.obs]

-----------------------------------------------------------------------------
(* Actions *)

\* one frame of GameCanvas.gameLoop: engine.update(dt); a throw ends the loop
Update(dt, pat, rnd) ==
    /\ ~Hung /\ loopAlive /\ budget.frames > 0
    /\ \E w \in {update([World EXCEPT !.now = now + dt], dt, pat, rnd)} :
          /\ Commit(w)
          /\ loopAlive' = ~w.obs.threw
          /\ op' = Op("update", w)
    /\ budget' = [budget EXCEPT !.frames = budget.frames - 1]
    /\ UNCHANGED <<resizeTimeout, hiddenAt>>

\* a pointer event on the canvas
HandleInput(type, x, y, rnd, pat) ==
    /\ ~Hung /\ budget.clicks > 0
    /\ \E w \in {handleInput(World, type, x, y, rnd, pat)} :
          /\ \A t \in UpgradeTypes \ BlockUpgradeTypes : w.upgrades[t] <= MaxLevel
          /\ Commit(w)
          /\ op' = Op("handleInput", w)
    /\ budget' = [budget EXCEPT !.clicks = budget.clicks - 1]
    /\ UNCHANGED <<resizeTimeout, loopAlive, hiddenAt>>

\* the Escape key
TogglePause ==
    /\ ~Hung /\ budget.clicks > 0
    /\ \E w \in {togglePause(World)} : Commit(w) /\ op' = Op("togglePause", w)
    /\ budget' = [budget EXCEPT !.clicks = budget.clicks - 1]
    /\ UNCHANGED <<resizeTimeout, loopAlive, hiddenAt>>

\* GameCanvas.handleResize: raise the guard, resize, (re)start the settle timeout
Resize(v, rnd) ==
    /\ ~Hung /\ budget.resizes > 0
    /\ \E w \in {resize([World EXCEPT !.isResizing = TRUE], v.width, v.height, rnd)} :
          Commit(w) /\ op' = Op("resize", w)
    /\ resizeTimeout' = TRUE
    /\ budget' = [budget EXCEPT !.resizes = budget.resizes - 1]
    /\ UNCHANGED <<loopAlive, hiddenAt>>

\* the settle timeout fires
ResizeSettle ==
    /\ ~Hung /\ resizeTimeout
    /\ \E w \in {[World EXCEPT !.isResizing = FALSE]} : Commit(w) /\ op' = Op("settle", w)
    /\ resizeTimeout' = FALSE
    /\ UNCHANGED <<loopAlive, hiddenAt, budget>>

TabHidden ==
    /\ ~Hung /\ budget.away > 0
    /\ \E w \in {onTabHidden(World)} : Commit(w) /\ op' = Op("onTabHidden", w)
    /\ hiddenAt' = IF gameState = "PLAYING" THEN now ELSE hiddenAt
    /\ UNCHANGED <<resizeTimeout, loopAlive, budget>>

\* the tab comes back after `elapsed` ms
TabVisible(elapsed) ==
    /\ ~Hung /\ budget.away > 0
    /\ \E w \in {onTabVisible([World EXCEPT !.now = now + elapsed])} :
          Commit(w) /\ op' = Op("onTabVisible", w)
    /\ budget' = [budget EXCEPT !.away = budget.away - 1]
    /\ hiddenAt' = -1
    /\ UNCHANGED <<resizeTimeout, loopAlive>>

\* the page is loaded again: a new engine over what localStorage holds
Reload(v, rnd) ==
    /\ budget.reloads > 0
    /\ \E w \in {constructor(v.width, v.height, storage, now, rnd)} :
          Commit(w) /\ op' = Op("constructor", w)
    /\ resizeTimeout' = FALSE
    /\ loopAlive' = TRUE
    /\ hiddenAt' = -1
    /\ budget' = [budget EXCEPT !.reloads = budget.reloads - 1]

\* the random draws an operation can consume in the current state: update rolls
\* types and jitters bounces only in PLAYING; a pointer event rolls types only
\* on a purchase and draws velocities only on a start or a prestige
UpdatePatterns == IF gameState = "PLAYING" THEN Patterns ELSE {NoHits}
UpdateRandom == IF gameState = "PLAYING" THEN RandomUnit ELSE {500}
InputPatterns(type) ==
    IF gameState = "PAUSED" /\ menuState = "SHOP" /\ type = "mouseup" THEN Patterns
    ELSE {NoHits}
InputRandom(type) ==
    IF gameState # "PAUSED" /\ type = "mouseup" THEN RandomUnit ELSE {500}

Next ==
    \/ \E dt \in DtSet, pat \in UpdatePatterns, rnd \in UpdateRandom : Update(dt, pat, rnd)
    \/ \E type \in EventTypes, p \in Targets(World) :
          \E rnd \in InputRandom(type), pat \in InputPatterns(type) :
             HandleInput(type, p[1], p[2], rnd, pat)
    \/ TogglePause
    \/ \E v \in ResizeViewports, rnd \in (IF gameState = "MENU" THEN RandomUnit ELSE {500}) :
          Resize(v, rnd)
    \/ ResizeSettle
    \/ TabHidden
    \/ \E elapsed \in AwayTimes : TabVisible(elapsed)
    \/ \E v \in Viewports, rnd \in RandomUnit : Reload(v, rnd)


\* the state after new GameEngine(v.width, v.height) over `stored`
Started(w, b) ==
    /\ gameState = w.gameState
    /\ menuState = w.menuState
    /\ activeButton = w.activeButton
    /\ isResizing = w.isResizing
    /\ shopOpenedFromHUD = w.shopOpenedFromHUD
    /\ money = w.money
    /\ upgrades = w.upgrades
    /\ offsetY = w.offsetY
    /\ maxRowGenerated = w.maxRowGenerated
    /\ rowHeight = w.rowHeight
    /\ canvasWidth = w.canvasWidth
    /\ canvasHeight = w.canvasHeight
    /\ holeWidth = w.holeWidth
    /\ holeLeft = w.holeLeft
    /\ holeRight = w.holeRight
    /\ notificationText = w.notificationText
    /\ notificationTimer = w.notificationTimer
    /\ autoSaveTimer = w.autoSaveTimer
    /\ bitBoosterTimer = w.bitBoosterTimer
    /\ cashBoosterTimer = w.cashBoosterTimer
    /\ prestigeCount = w.prestigeCount
    /\ lastActiveTime = w.lastActiveTime
    /\ balls = w.balls
    /\ blocks = w.blocks
    /\ storage = w.storage
    /\ now = w.now
    /\ resizeTimeout = FALSE
    /\ loopAlive = TRUE
    /\ hiddenAt = -1
    /\ budget = b
    /\ op = Op("constructor", w)

Start(v, stored, rnd, b) ==
    \E w \in {constructor(v.width, v.height, stored, StartTime, rnd)} : Started(w, b)

-----------------------------------------------------------------------------
(* What localStorage may hold when the page is opened: nothing, or a snapshot *)
(* that saveGame wrote in an earlier session.                                 *)

\* when the earlier session saved
SavedAt == 500

\* the cells of a shaft dug straight down through rows 0 .. depth - 1: it runs
\* along column 3 of the odd rows, between columns 2 and 3 of the even rows
Shaft(depth) ==
    {<<r, 3>> : r \in 0..(depth - 1)} \cup {<<r, 2>> : r \in {q \in 0..(depth - 1) : q % 2 = 0}}

\* a fresh engine in viewport v, as the earlier session began
Fresh(v) == constructor(v.width, v.height, NoSave, SavedAt, 500)

\* the cell (row, col) in viewport v
CellAt(v, row, col) == GeneratedBlock(Fresh(v), row, col, NoHits)

\* the session once it had generated `rows` rows
Deepened(fresh, rows) ==
    IF rows > INITIAL_ROWS
    THEN generateRows(fresh, INITIAL_ROWS, rows - INITIAL_ROWS, NoHits)
    ELSE fresh

\* the cells `left` with the types `types` found (a function from <<row, col>> to type)
Retyped(left, types) ==
    [i \in 1..Len(left) |->
        IF <<left[i].row, left[i].col>> \in DOMAIN types
        THEN [left[i] EXCEPT !.type = types[<<left[i].row, left[i].col>>]]
        ELSE left[i]]

\* a ball of the session: sized for the geometry, with the upgrades applied
SessionBall(radius, ball, ups) ==
    [Ball(ball.x, ball.y, (radius * 3) \div 10, ball.dx, ball.dy,
          GravityFor(radius, ups.gravity)) EXCEPT !.damage = ups.damage]

\* count + 1 balls side by side
SessionBalls(one, count) ==
    [i \in 1..(count + 1) |-> [one EXCEPT !.x = one.x + (i - 1) * 2 * one.radius]]

\* the session after digging out the cells `dug`, with the given ball, camera and progress
Progressed(grown, dug, types, ball, camera, cash, ups, count) ==
    [grown EXCEPT
       !.gameState = "PLAYING",
       !.blocks = Retyped(SelectSeq(grown.blocks, LAMBDA b : <<b.row, b.col>> \notin dug),
                          types),
       !.balls = SessionBalls(SessionBall(RadiusOfRow(grown.rowHeight), ball, ups), count),
       !.offsetY = camera, !.money = cash, !.upgrades = ups, !.prestigeCount = count]

\* the snapshot of an earlier session in viewport v that had generated `rows`
\* rows, dug out the cells `dug`, found the types `types` and saved with the
\* given ball, camera and progress
EarlierSession(v, rows, dug, types, ball, camera, cash, ups, count) ==
    Snapshot(Progressed(Deepened(Fresh(v), rows), dug, types, ball, camera, cash, ups, count))

Budget(frames, clicks, resizes, away, reloads) ==
    [frames |-> frames, clicks |-> clicks, resizes |-> resizes, away |-> away,
     reloads |-> reloads]

\* a ball at rest where ball b is
AtRest(b) == [x |-> b.x, y |-> b.y, dx |-> 0, dy |-> 0]

\* a session that dug four rows down and stopped over a nest of special cells
MineUpgrades ==
    [damage |-> 2, gravity |-> 1, efficiency |-> 2,
     bitBoosters |-> 0, explosiveBlocks |-> 1, cashBoosters |-> 1]
MineTypes ==
    (<<5, 3>> :> "explosive") @@ (<<4, 2>> :> "cashBooster")
       @@ (<<4, 3>> :> "explosive") @@ (<<5, 4>> :> "explosive")
MineStore ==
    EarlierSession(Desktop, INITIAL_ROWS, Shaft(4), MineTypes,
                   [x |-> CellAt(Desktop, 3, 3).x,
                    y |-> CellAt(Desktop, 3, 3).y
                            - RowOfRadius(HexRadius(Desktop.width \div 2)) \div 3,
                    dx |-> 0, dy |-> (HexRadius(Desktop.width \div 2) * 8) \div 10],
                   CellAt(Desktop, 4, 3).y - Desktop.height \div 3,
                   37, MineUpgrades, 0)

\* the same session with the damage-booster track bought, a damage booster in
\* the nest, and both booster timers running when it saved
BoostedStore ==
    [MineStore EXCEPT !.upgrades.bitBoosters = 1,
                      !.bitBoosterTimer = 3000, !.cashBoosterTimer = 3000,
                      !.blocks = Retyped(MineStore.blocks, <<5, 2>> :> "bitBooster")]

\* the same session with the cell under the ball of type `type` and both booster
\* timers at `left` when it saved
TimedStore(type, left) ==
    [MineStore EXCEPT !.upgrades.bitBoosters = 1,
                      !.bitBoosterTimer = left, !.cashBoosterTimer = left,
                      !.blocks = Retyped(MineStore.blocks, <<5, 3>> :> type)]

\* a session that saved with 120 to spend, before digging
RichStore ==
    EarlierSession(Desktop, INITIAL_ROWS, {}, <<>>, AtRest(Fresh(Desktop).balls[1]),
                   Fresh(Desktop).offsetY, 120, BaseUpgrades, 0)

\* a session far into the tracks: two block tracks at the cap, one a step below
CappedUpgrades ==
    [damage |-> MaxLevel, gravity |-> MaxLevel, efficiency |-> MaxLevel,
     bitBoosters |-> MAX_BLOCK_LEVEL, explosiveBlocks |-> MAX_BLOCK_LEVEL - 1,
     cashBoosters |-> MAX_BLOCK_LEVEL]
CappedStore ==
    EarlierSession(Desktop, INITIAL_ROWS, {}, <<>>, AtRest(Fresh(Desktop).balls[1]),
                   Fresh(Desktop).offsetY, 5800, CappedUpgrades, 0)

\* a session whose ball outran the camera: the frontier is one frame from moving
FrontierStore ==
    EarlierSession(Desktop, INITIAL_ROWS, Shaft(16), <<>>, AtRest(CellAt(Desktop, 15, 3)),
                   250 * PX + INITIAL_ROWS * RowOfRadius(HexRadius(Desktop.width \div 2))
                      - (Desktop.height * 3) \div 2,
                   37, MineUpgrades, 0)

\* a session `short` units above depth PRESTIGE_DEPTH with `count` prestiges behind it
DeepRows == 540
DeepBall(x, y) == [x |-> x, y |-> y, dx |-> 0, dy |-> 0]
DeepAt(y, x, count) ==
    EarlierSession(Desktop, DeepRows, Shaft(PRESTIGE_DEPTH \div 2 + 1), <<>>,
                   DeepBall(x, y), y - Desktop.height \div 3, 1234, MineUpgrades, count)
DeepStore(short, count) ==
    DeepAt(CellAt(Desktop, PRESTIGE_DEPTH \div 2, 3).y - short, CellAt(Desktop, 1, 3).x, count)

\* snapshots written by older versions of the game: the session of MineStore
\* without booster timers, prestige count, last active time, cell types and
\* ball damage, with only the upgrade levels `ups`, and with the single `ball`
\* of the oldest format or the `balls` list that replaced it
OldBall(b) == [x |-> b.x, y |-> b.y, dx |-> b.dx, dy |-> b.dy, radius |-> b.radius]
OldBlock(b) == [x |-> b.x, y |-> b.y, row |-> b.row, col |-> b.col, hp |-> b.hp, maxHp |-> b.maxHp, value |-> b.value, radius |-> b.radius]
OldestStore(ups) ==
    [present |-> TRUE, decodable |-> TRUE, hasBlocks |-> TRUE,
     money |-> MineStore.money, upgrades |-> ups, offsetY |-> MineStore.offsetY,
     maxRowGenerated |-> MineStore.maxRowGenerated, rowHeight |-> MineStore.rowHeight,
     canvasWidth |-> MineStore.canvasWidth, canvasHeight |-> MineStore.canvasHeight,
     ball |-> OldBall(MineStore.balls[1]),
     blocks |-> [i \in 1..Len(MineStore.blocks) |-> OldBlock(MineStore.blocks[i])]]
OlderStore(ups) ==
    [present |-> TRUE, decodable |-> TRUE, hasBlocks |-> TRUE,
     money |-> MineStore.money, upgrades |-> ups, offsetY |-> MineStore.offsetY,
     maxRowGenerated |-> MineStore.maxRowGenerated, rowHeight |-> MineStore.rowHeight,
     canvasWidth |-> MineStore.canvasWidth, canvasHeight |-> MineStore.canvasHeight,
     balls |-> << OldBall(MineStore.balls[1]) >>,
     blocks |-> [i \in 1..Len(MineStore.blocks) |-> OldBlock(MineStore.blocks[i])]]

\* the session of MineStore after one prestige: two balls, both moving down
\* and sideways when it saved
TwoBallStore ==
    EarlierSession(Desktop, INITIAL_ROWS, Shaft(4), MineTypes,
                   [x |-> CellAt(Desktop, 3, 3).x,
                    y |-> CellAt(Desktop, 3, 3).y
                            - RowOfRadius(HexRadius(Desktop.width \div 2)) \div 3,
                    dx |-> (HexRadius(Desktop.width \div 2) * 3) \div 10,
                    dy |-> (HexRadius(Desktop.width \div 2) * 4) \div 10],
                   CellAt(Desktop, 4, 3).y - Desktop.height \div 3,
                   37, MineUpgrades, 1)

\* the session of TwoBallStore saved while both balls fell at the step's limit
\* of 0.8 x radius after a sideways bounce had left them 0.6 x radius across
FastStore ==
    [TwoBallStore EXCEPT
       !.balls = [i \in 1..Len(TwoBallStore.balls) |->
                    [TwoBallStore.balls[i] EXCEPT
                        !.dx = (HexRadius(Desktop.width \div 2) * 6) \div 10,
                        !.dy = (HexRadius(Desktop.width \div 2) * 8) \div 10]]]

\* a session that dug thirty rows down and saved with the ball at rest at the
\* bottom of its shaft, the camera on the ball
ShaftStore ==
    EarlierSession(Desktop, INITIAL_ROWS, Shaft(31), <<>>, AtRest(CellAt(Desktop, 30, 3)),
                   CellAt(Desktop, 30, 3).y - Desktop.height \div 3,
                   37, MineUpgrades, 0)

\* a session after one prestige that dug a pit six rows deep over columns 2..7
\* and saved at a low frame rate with both balls falling at the step's limit:
\* one over cell (6, 5), the other over the explosive cell (6, 3), which an
\* earlier hit had left at 1 hp
Pit == {<<r, c>> : r \in 0..5, c \in 2..7}
PitUpgrades == [BaseUpgrades EXCEPT !.explosiveBlocks = 1]
PitBall(over) ==
    [x |-> over.x - 24 * PX, y |-> over.y - 90 * PX, dx |-> 0,
     dy |-> (HexRadius(Desktop.width \div 2) * 8) \div 10,
     radius |-> (HexRadius(Desktop.width \div 2) * 3) \div 10, damage |-> 1]
PitSession ==
    EarlierSession(Desktop, INITIAL_ROWS, Pit, <<6, 3>> :> "explosive",
                   AtRest(CellAt(Desktop, 5, 5)),
                   CellAt(Desktop, 5, 5).y - Desktop.height \div 3,
                   37, PitUpgrades, 1)
PitStore ==
    [PitSession EXCEPT
       !.balls = << PitBall(CellAt(Desktop, 6, 5)), PitBall(CellAt(Desktop, 6, 3)) >>,
       !.blocks = [i \in 1..Len(PitSession.blocks) |->
                     IF PitSession.blocks[i].row = 6 /\ PitSession.blocks[i].col = 3
                     THEN [PitSession.blocks[i] EXCEPT !.hp = 1]
                     ELSE PitSession.blocks[i]]]

\* a wide and low window, and a session in it that dug down to the last
\* generated row: the camera, a third of the window above the ball, has not
\* yet come within one and a half windows of the frontier.  The ball falls
\* towards the last cell of the list, an explosive cell with 1 hp left.
Strip == [width |-> 1872 * PX, height |-> 100 * PX]
StripDug == Shaft(INITIAL_ROWS - 1) \cup {<<r, c>> : r \in 33..(INITIAL_ROWS - 2), c \in 4..9}
StripBall(over) ==
    [x |-> over.x - 48 * PX, y |-> over.y - 180 * PX, dx |-> 0,
     dy |-> (HexRadius(Strip.width \div 2) * 8) \div 10,
     radius |-> (HexRadius(Strip.width \div 2) * 3) \div 10, damage |-> 1]
StripSession ==
    EarlierSession(Strip, INITIAL_ROWS, StripDug, <<INITIAL_ROWS - 1, 9>> :> "explosive",
                   AtRest(CellAt(Strip, INITIAL_ROWS - 2, 9)),
                   CellAt(Strip, INITIAL_ROWS - 1, 9).y - 180 * PX - Strip.height \div 3,
                   37, PitUpgrades, 0)
StripStore ==
    [StripSession EXCEPT
       !.balls = << StripBall(CellAt(Strip, INITIAL_ROWS - 1, 9)) >>,
       !.blocks = [i \in 1..Len(StripSession.blocks) |->
                     IF /\ StripSession.blocks[i].row = INITIAL_ROWS - 1
                        /\ StripSession.blocks[i].col = 9
                     THEN [StripSession.blocks[i] EXCEPT !.hp = 1]
                     ELSE StripSession.blocks[i]]]

\* snapshots damaged in storage: not decodable, or decodable without the cell list
Undecodable == [present |-> TRUE, decodable |-> FALSE]
Truncated == [MineStore EXCEPT !.hasBlocks = FALSE]

InitFresh ==
    \E v \in Viewports, rnd \in RandomUnit : Start(v, NoSave, rnd, Budget(2, 3, 0, 0, 0))
InitUi == Start(Desktop, NoSave, 500, Budget(0, 7, 0, 0, 0))
InitShop == \E stored \in {RichStore, CappedStore} : Start(Desktop, stored, 500, Budget(0, 6, 0, 0, 0))
InitMine == Start(Desktop, MineStore, 500, Budget(2, 2, 0, 0, 0))
InitFrontier == Start(Desktop, FrontierStore, 500, Budget(2, 2, 0, 0, 0))
InitBoosted ==
    \E stored \in {BoostedStore, TimedStore("bitBooster", 3000),
                   TimedStore("cashBooster", 3000), TimedStore("normal", 40)} :
        Start(Desktop, stored, 500, Budget(2, 2, 0, 0, 0))
InitDeep ==
    \E stored \in {DeepStore(0, 0), DeepStore(0, 1), DeepStore(1, 0)} :
        Start(Desktop, stored, 500, Budget(0, 4, 0, 0, 0))
InitShell ==
    \E b \in {Budget(1, 2, 1, 0, 0), Budget(1, 2, 0, 1, 0), Budget(1, 2, 0, 0, 1)} :
        Start(Desktop, MineStore, 500, b)
InitAway ==
    \E b \in {Budget(1, 2, 0, 1, 0), Budget(0, 3, 0, 1, 0)},
       stored \in {TimedStore("normal", 3000),
                   [TimedStore("normal", 3000) EXCEPT !.cashBoosterTimer = 0]} :
        Start(Desktop, stored, 500, b)
InitOld ==
    \E stored \in {OldestStore([damage |-> 2]), OldestStore([gravity |-> 2, efficiency |-> 2]),
                   OlderStore([damage |-> 2])} :
        Start(Desktop, stored, 500, Budget(1, 2, 0, 0, 0))

InitRoundTrip ==
    \E stored \in {CappedStore, RichStore} : Start(Desktop, stored, 500, Budget(0, 6, 0, 0, 1))

InitResize == Start(Desktop, TwoBallStore, 500, Budget(0, 3, 2, 0, 0))

InitFast == Start(Desktop, FastStore, 500, Budget(0, 2, 1, 0, 0))

InitLineUp == Start(Desktop, ShaftStore, 500, Budget(1, 2, 2, 0, 0))

InitPit == Start(Desktop, PitStore, 500, Budget(1, 2, 0, 0, 0))
\* a fresh engine with enough pointer events to open SETTINGS, press the
\* volume slider and leave with Escape, and one frame after that
InitDrag == Start(Desktop, NoSave, 500, Budget(1, 7, 0, 0, 0))

InitStrip == Start(Strip, StripStore, 500, Budget(1, 2, 0, 0, 0))

\* a fresh engine constructed while the window has no width
InitFlat == Start(Flat, NoSave, 500, Budget(1, 2, 0, 0, 0))

InitDamaged ==
    \E stored \in {Undecodable, Truncated} : Start(Desktop, stored, 500, Budget(1, 2, 0, 0, 0))

Init ==
    \/ InitFresh
    \/ InitUi
    \/ InitShop
    \/ InitMine
    \/ InitFrontier
    \/ InitBoosted
    \/ InitDeep
    \/ InitShell
    \/ InitAway
    \/ InitOld
    \/ InitRoundTrip
    \/ InitResize
    \/ InitFast
    \/ InitLineUp
    \/ InitPit
    \/ InitDrag
    \/ InitStrip
    \/ InitFlat
    \/ InitDamaged

Spec == Init /\ [][Next]_vars

-----------------------------------------------------------------------------
(* Properties *)

\* whether some cell of bs sits at the coordinates rc = <<row, col>>
LiveAt(bs, rc) == \E i \in DOMAIN bs : bs[i].row = rc[1] /\ bs[i].col = rc[2]

\* the six neighbours of (row, col) in the offset hex grid: odd rows lean left
HexNeighbours(row, col) ==
    {<<row - 1, col - (row % 2)>>, <<row - 1, col + 1 - (row % 2)>>,
     <<row, col - 1>>, <<row, col + 1>>,
     <<row + 1, col - (row % 2)>>, <<row + 1, col + 1 - (row % 2)>>}

\* ceil(value * (1 + (level - 1) * 0.2) * (2 if the reward booster runs, else 1))
StatedReward(value, level, running) ==
    -((-(value * (5 + (level - 1)) * (IF running THEN 2 ELSE 1))) \div 5)

\* the entries of what an operation removed, as <<row, col>> pairs
RemovedAt(removed) == [k \in DOMAIN removed |-> <<removed[k].row, removed[k].col>>]

NoRepeats(seq) == \A i, j \in DOMAIN seq : i # j => seq[i] # seq[j]

\* C1: on a running engine gameState changes only MENU -> PLAYING (release of
\* the start button), PLAYING -> PAUSED (togglePause, the pause icon or the HUD
\* box) and PAUSED -> PLAYING (togglePause, resume, or the shop's back button
\* when the shop was opened from the HUD); no operation returns the engine to
\* MENU, and togglePause in MENU leaves gameState as it is.
C1_LifecycleTransitions ==
    [][op'.name # "constructor" =>
         /\ gameState' = "MENU" => gameState = "MENU"
         /\ (op'.name = "togglePause" /\ gameState = "MENU") => gameState' = "MENU"
         /\ gameState' # gameState =>
              \/ /\ gameState = "MENU" /\ gameState' = "PLAYING"
                 /\ op'.name = "handleInput" /\ activeButton = "start"
              \/ /\ gameState = "PLAYING" /\ gameState' = "PAUSED"
                 /\ \/ op'.name = "togglePause"
                    \/ op'.name = "handleInput" /\ activeButton \in {"pause_icon", "hud_info"}
              \/ /\ gameState = "PAUSED" /\ gameState' = "PLAYING"
                 /\ \/ op'.name = "togglePause"
                    \/ op'.name = "handleInput" /\ activeButton = "resume"
                    \/ /\ op'.name = "handleInput" /\ activeButton = "back"
                       /\ menuState = "SHOP" /\ shopOpenedFromHUD]_vars

\* the shop, opened from the HUD, has just been left for the game by its back button
C1_BackFromHudShop ==
    /\ op.name = "handleInput" /\ op.from = "PAUSED"
    /\ gameState = "PLAYING" /\ menuState = "SHOP"

\* C2: while gameState is MENU or PAUSED, update(dt) leaves every ball, every
\* cell and the cell list, money, offsetY, maxRowGenerated, both booster
\* timers and the auto-save timer unchanged, and saves nothing.
C2_FrozenOutsidePlaying ==
    [][(op'.name = "update" /\ gameState \in {"MENU", "PAUSED"}) =>
         /\ UNCHANGED <<balls, blocks, money, offsetY, maxRowGenerated,
                        bitBoosterTimer, cashBoosterTimer, autoSaveTimer, storage>>
         /\ op'.obs.saves = 0]_vars

\* a frame has run on a paused game whose ball is in flight
C2_FrameWhilePaused ==
    /\ op.name = "update" /\ op.from = "PAUSED" /\ gameState = "PAUSED"
    /\ balls[1].dy # 0

\* C3: buyUpgrade(t) succeeds exactly when money >= the price of t and, on a
\* capped track, the level of t is below 10; on success money falls by exactly
\* the price, the level of t rises by exactly 1 and the other five levels stay;
\* a capped level never exceeds 10.
C3_PurchaseRule ==
    [][op'.obs.buy # "none" =>
         /\ op'.obs.result <=>
               /\ money >= ShopPrice(upgrades, op'.obs.buy)
               /\ op'.obs.buy \in BlockUpgradeTypes => upgrades[op'.obs.buy] < 10
         /\ op'.obs.result =>
               /\ money' = money - ShopPrice(upgrades, op'.obs.buy)
               /\ upgrades' = [upgrades EXCEPT ![op'.obs.buy] = upgrades[op'.obs.buy] + 1]
         /\ \A t \in BlockUpgradeTypes : upgrades'[t] <= 10]_vars

\* the last level of a capped track has just been bought
C3_BoughtLastLevel ==
    /\ op.obs.buy = "explosiveBlocks" /\ op.obs.result
    /\ upgrades.explosiveBlocks = 10

\* C4: a buyUpgrade call that is refused (too little money, or a capped track
\* at level 10) returns false without throwing, sets a notification, and leaves
\* money, the six levels, every ball's damage and gravity and every cell's
\* type unchanged.
C4_RefusedPurchase ==
    [][(/\ op'.obs.buy # "none"
        /\ \/ money < ShopPrice(upgrades, op'.obs.buy)
           \/ op'.obs.buy \in BlockUpgradeTypes /\ upgrades[op'.obs.buy] >= 10) =>
         /\ ~op'.obs.result /\ ~op'.obs.threw
         /\ notificationTimer' > 0 /\ notificationText' # ""
         /\ UNCHANGED <<money, upgrades>>
         /\ DOMAIN balls' = DOMAIN balls
         /\ \A k \in DOMAIN balls : /\ balls'[k].damage = balls[k].damage
                                    /\ balls'[k].gravity = balls[k].gravity
         /\ DOMAIN blocks' = DOMAIN blocks
         /\ \A i \in DOMAIN blocks : blocks'[i].type = blocks[i].type]_vars

\* a purchase on a capped track at level 10 has just been refused
C4_RefusedAtCap ==
    /\ op.obs.buy = "bitBoosters" /\ ~op.obs.result
    /\ upgrades.bitBoosters = 10 /\ notificationText = "Max level reached!"

\* C5: every cell that update removes, by a hit or by a chain, is credited
\* exactly once with ceil(value * efficiencyMultiplier * rewardBoosterMultiplier),
\* the booster multiplier being 2 when the reward-booster timer is running at
\* the removal and 1 otherwise.
C5_EveryRemovalCreditsReward ==
    op.name = "update" =>
        /\ NoRepeats(RemovedAt(op.obs.removed))
        /\ \A k \in DOMAIN op.obs.removed :
              op.obs.removed[k].credit =
                 StatedReward(op.obs.removed[k].value, op.obs.removed[k].efficiency,
                              op.obs.removed[k].boosted)

\* C6: destroyAdjacentBlocks terminates whatever the arrangement of explosive
\* cells, expands the neighbours of each (row, col) at most once in one
\* operation, and destroys each cell at most once.
C6_ChainTerminates ==
    op.name = "update" =>
        /\ ~op.obs.overrun
        /\ NoRepeats(op.obs.expanded)
        /\ NoRepeats(RemovedAt(op.obs.removed))

\* a chain has run through three explosive cells that are neighbours of one another
C6_RingExpanded ==
    /\ op.name = "update" /\ ~op.obs.overrun
    /\ \E a, b, c \in DOMAIN op.obs.expanded :
          /\ a < b /\ b < c
          /\ <<op.obs.expanded[b].row, op.obs.expanded[b].col>>
                \in HexNeighbours(op.obs.expanded[a].row, op.obs.expanded[a].col)
          /\ <<op.obs.expanded[c].row, op.obs.expanded[c].col>>
                \in HexNeighbours(op.obs.expanded[b].row, op.obs.expanded[b].col)
          /\ <<op.obs.expanded[a].row, op.obs.expanded[a].col>>
                \in HexNeighbours(op.obs.expanded[c].row, op.obs.expanded[c].col)

\* C7: when update destroys an explosive cell, by a hit or within a chain, every
\* cell that was live at one of its six neighbour coordinates is removed and
\* credited in the same update, whatever its hp, and none is left there.
C7_ExplosionTakesNeighbours ==
    [][op'.name = "update" =>
         \A k \in DOMAIN op'.obs.removed :
            op'.obs.removed[k].type = "explosive" =>
               \A n \in HexNeighbours(op'.obs.removed[k].row, op'.obs.removed[k].col) :
                  /\ ~LiveAt(blocks', n)
                  /\ LiveAt(blocks, n) =>
                        \E j \in DOMAIN op'.obs.removed :
                           /\ RemovedAt(op'.obs.removed)[j] = n
                           /\ op'.obs.removed[j].credit > 0]_vars

\* the explosive cell at (5, 3) was hit and its six neighbours went with it
C7_SixNeighboursTaken ==
    /\ op.name = "update"
    /\ \E k \in DOMAIN op.obs.removed :
          /\ RemovedAt(op.obs.removed)[k] = <<5, 3>>
          /\ op.obs.removed[k].type = "explosive" /\ op.obs.removed[k].cause = "hit"
    /\ \A n \in HexNeighbours(5, 3) :
          \E j \in DOMAIN op.obs.removed :
             RemovedAt(op.obs.removed)[j] = n /\ op.obs.removed[j].cause = "chain"

\* C8: after prestige() money is 0, the levels are at their baseline (damage,
\* gravity, efficiency 1; the capped tracks 0), both booster timers are 0,
\* there are prestigeCount + 1 balls, and the live cells are those of a new
\* world: the first rows, whole and at full health, and nothing below them.
C8_PrestigeResets ==
    [][op'.obs.prestiged =>
         /\ money' = 0
         /\ upgrades' = [damage |-> 1, gravity |-> 1, efficiency |-> 1,
                         bitBoosters |-> 0, explosiveBlocks |-> 0, cashBoosters |-> 0]
         /\ bitBoosterTimer' = 0 /\ cashBoosterTimer' = 0
         /\ Len(balls') = prestigeCount' + 1
         /\ Len(blocks') = INITIAL_ROWS * numColumns
         /\ NoRepeats(RemovedAt(blocks'))
         /\ \A i \in DOMAIN blocks' :
               /\ blocks'[i].row < INITIAL_ROWS
               /\ blocks'[i].hp = blocks'[i].maxHp
               /\ blocks'[i].type = "normal"]_vars

\* a prestige from a dug-out world with upgrades bought: the shaft is whole again
C8_PrestigedFromDepth ==
    /\ op.obs.prestiged /\ op.from = "PLAYING"
    /\ LiveAt(blocks, <<0, 3>>) /\ Len(balls) = 2

\* C9: prestigeCount is a non-negative integer that never decreases and grows
\* by exactly 1 per prestige; there are always prestigeCount + 1 balls; and
\* prestige runs only from the prestige button, in PLAYING, with the deepest
\* ball at depth 1000 or more.
C9_PrestigeCount ==
    /\ [](prestigeCount \in Nat /\ Len(balls) = prestigeCount + 1)
    /\ [][/\ prestigeCount' >= prestigeCount
          /\ prestigeCount' # prestigeCount => op'.obs.prestiged
          /\ op'.obs.prestiged =>
                /\ prestigeCount' = prestigeCount + 1
                /\ op'.name = "handleInput" /\ activeButton = "prestige"
                /\ gameState = "PLAYING"
                /\ CurrentDepth(World) >= 1000]_vars

\* a second prestige has just run
C9_SecondPrestige ==
    op.obs.prestiged /\ prestigeCount = 2 /\ Len(balls) = 3

\* C10: no two live cells share a (row, col).
C10_CellsUnique ==
    Cardinality({<<blocks[i].row, blocks[i].col>> : i \in DOMAIN blocks}) = Len(blocks)

\* the catch-up loop of update has just generated a batch of rows
C10_BatchGenerated ==
    op.name = "update" /\ maxRowGenerated = INITIAL_ROWS + BATCH_ROWS

\* C11 as stated: across update, resize, buyUpgrade, prestige and input
\* operations maxRowGenerated never decreases.
C11_FrontierNeverDecreases ==
    [][op'.name # "constructor" => maxRowGenerated' >= maxRowGenerated]_vars

\* C11: on a running engine maxRowGenerated never decreases, except that a
\* prestige starts a new world and sets it to INITIAL_ROWS.
C11_FrontierAdvancesUntilPrestige ==
    [][op'.name # "constructor" =>
          IF op'.obs.prestiged THEN maxRowGenerated' = INITIAL_ROWS
          ELSE maxRowGenerated' >= maxRowGenerated]_vars

\* a prestige from a world generated far past INITIAL_ROWS has just run
C11_FrontierRestarted ==
    op.obs.prestiged /\ maxRowGenerated = INITIAL_ROWS /\ prestigeCount = 1

C13_SkippedWhileResizing ==
    [][(op'.name = "update" /\ isResizing) =>
          UNCHANGED <<balls, blocks, money, offsetY, maxRowGenerated,
                      bitBoosterTimer, cashBoosterTimer, autoSaveTimer>>]_vars

\* both booster timers once the k-th removal of the last update had its effect:
\* those the next removal found, or those the update ended with
TimersAfter(k) ==
    IF k < Len(op'.obs.removed)
    THEN [bit |-> op'.obs.removed[k + 1].bit, cash |-> op'.obs.removed[k + 1].cash]
    ELSE [bit |-> bitBoosterTimer', cash |-> cashBoosterTimer']

\* C14: whenever update destroys a damage-booster or a reward-booster cell, by
\* a hit or in a chain, that booster's timer becomes exactly 5000 whatever it
\* was, and the other booster's timer stays as it was.
C14_BoosterRefreshed ==
    [][op'.name = "update" =>
          \A k \in 1..Len(op'.obs.removed) :
             /\ op'.obs.removed[k].type = "bitBooster" =>
                   /\ TimersAfter(k).bit = 5000
                   /\ TimersAfter(k).cash = op'.obs.removed[k].cash
             /\ op'.obs.removed[k].type = "cashBooster" =>
                   /\ TimersAfter(k).cash = 5000
                   /\ TimersAfter(k).bit = op'.obs.removed[k].bit]_vars

\* a chain has destroyed a reward booster and then a damage booster, each with
\* its timer part-way down
C14_BothRefreshedMidway ==
    /\ op.name = "update"
    /\ \E j, k \in 1..Len(op.obs.removed) :
          /\ j < k
          /\ op.obs.removed[j].type = "cashBooster" /\ op.obs.removed[j].cause = "chain"
          /\ op.obs.removed[j].cash \in 1..4999
          /\ op.obs.removed[k].type = "bitBooster"
          /\ op.obs.removed[k].bit \in 1..4999 /\ op.obs.removed[k].cash = 5000
    /\ bitBoosterTimer = 5000 /\ cashBoosterTimer = 5000

OfflineCredit(w, elapsedMs) == simulateOfflineProgress(w, elapsedMs).money - w.money

\* C16: whenever the tab comes back to a running game, the offline estimator
\* applied to that engine state credits nothing for an elapsed time of 0 and,
\* for every elapsed time above 24 hours, what it credits for exactly 24 hours;
\* the money actually credited by onTabVisible follows the same rule
C16_OfflineCreditCapped ==
    [][(op'.name = "onTabVisible" /\ gameState = "PLAYING") =>
          /\ OfflineCredit([World EXCEPT !.now = now'], 0) = 0
          /\ \A e \in {x \in AwayTimes \cup {now' - lastActiveTime} : x > MAX_OFFLINE_TIME} :
                OfflineCredit([World EXCEPT !.now = now'], e)
                  = OfflineCredit([World EXCEPT !.now = now'], MAX_OFFLINE_TIME)
          /\ (now' - lastActiveTime > MAX_OFFLINE_TIME =>
                money' - money = OfflineCredit([World EXCEPT !.now = now'], MAX_OFFLINE_TIME))
          /\ (now' - lastActiveTime = 0 => money' = money)]_vars

\* the tab came back to a running game after more than 24 hours and the
\* estimator credited a reward
C16_BackAfterMoreThanADay ==
    /\ op.name = "onTabVisible" /\ op.from = "PLAYING"
    /\ op.obs.offline.ran /\ op.obs.offline.elapsed > MAX_OFFLINE_TIME
    /\ op.obs.offline.earned > 0 /\ notificationText = "Welcome back!"


\* C17: onTabHidden and onTabVisible called in MENU or PAUSED never run the
\* offline estimator and leave money and both booster timers as they were,
\* however long the tab was away
C17_NoOfflineOutsidePlay ==
    [][(op'.name \in {"onTabHidden", "onTabVisible"} /\ gameState \in {"MENU", "PAUSED"}) =>
          /\ UNCHANGED <<money, bitBoosterTimer, cashBoosterTimer>>
          /\ ~op'.obs.offline.ran]_vars

\* the tab came back to a paused game after more than 24 hours: no estimate
\* was made and the running booster timers still show what they showed
C17_PausedForADay ==
    /\ op.name = "onTabVisible" /\ op.from = "PAUSED"
    /\ op.obs.offline.elapsed > MAX_OFFLINE_TIME /\ ~op.obs.offline.ran
    /\ bitBoosterTimer = 3000 /\ cashBoosterTimer = 3000


\* C18: when the offline reconciliation runs, each booster timer ends at
\* max(0, old - min(elapsed, 24 h)): a running timer is counted down by the
\* capped elapsed time and stops at 0, it is never set back to its full
\* duration, and a timer at 0 stays at 0
C18_TimersCountedDownOffline ==
    [][(op'.name = "onTabVisible" /\ op'.obs.offline.ran) =>
          /\ bitBoosterTimer' =
               Max(0, bitBoosterTimer - Min(now' - lastActiveTime, MAX_OFFLINE_TIME))
          /\ cashBoosterTimer' =
               Max(0, cashBoosterTimer - Min(now' - lastActiveTime, MAX_OFFLINE_TIME))
          /\ bitBoosterTimer' <= bitBoosterTimer /\ cashBoosterTimer' <= cashBoosterTimer
          /\ (cashBoosterTimer = 0 => cashBoosterTimer' = 0)
          /\ (bitBoosterTimer = 0 => bitBoosterTimer' = 0)]_vars

\* a reconciliation over about two seconds left the damage booster running
\* with the time away taken off, and the cash booster, not running, at 0
C18_PartlyCountedDown ==
    /\ op.name = "onTabVisible" /\ op.obs.offline.ran
    /\ op.obs.offline.elapsed >= 2000 /\ op.obs.offline.elapsed < 3000
    /\ bitBoosterTimer > 0 /\ bitBoosterTimer <= 3000 - op.obs.offline.elapsed
    /\ cashBoosterTimer = 0


\* the engine holds what the fresh engine f holds, up to the random sideways
\* speed of the first ball
AsFresh(f) ==
    /\ money = f.money /\ upgrades = f.upgrades
    /\ bitBoosterTimer = f.bitBoosterTimer /\ cashBoosterTimer = f.cashBoosterTimer
    /\ prestigeCount = f.prestigeCount /\ offsetY = f.offsetY
    /\ maxRowGenerated = f.maxRowGenerated /\ rowHeight = f.rowHeight
    /\ Len(balls) = Len(f.balls)
    /\ \A i \in 1..Len(balls) : [balls[i] EXCEPT !.dx = 0] = [f.balls[i] EXCEPT !.dx = 0]

\* C19: after a construction whose loadGame failed on a stored snapshot,
\* loadGame has returned false and the engine holds the state of a fresh world
\* in its viewport: nothing read from the snapshot remains
C19_FailedLoadLeavesFreshWorld ==
    (op.name = "constructor" /\ op.obs.threw) =>
        /\ ~op.obs.result
        /\ AsFresh(Fresh([width |-> canvasWidth, height |-> canvasHeight]))


\* C20: after loadGame has loaded a snapshot saved at a canvas size other than
\* the one the engine had when loadGame was called, the engine has that
\* current size again and its hole and row geometry are those of that size
C20_LoadFitsCurrentViewport ==
    (op.obs.result /\ (op.obs.load.savedWidth # op.obs.load.width
                         \/ op.obs.load.savedHeight # op.obs.load.height)) =>
        /\ canvasWidth = op.obs.load.width /\ canvasHeight = op.obs.load.height
        /\ holeWidth = op.obs.load.width \div 2
        /\ rowHeight = RowOfRadius(HexRadius(op.obs.load.width \div 2))


\* the upgrade levels of the snapshot s with the documented defaults for the
\* levels it lacks
DefaultedLevel(s, track) ==
    IF track \in DOMAIN s.upgrades THEN s.upgrades[track]
    ELSE IF track \in BlockUpgradeTypes THEN 0 ELSE 1

\* C21: loading a snapshot that lacks newer fields succeeds, and what the
\* snapshot lacks gets its default: upgrade level 1 (general tracks) or 0
\* (capped tracks), booster timers and prestige count 0, cell type normal,
\* typeRolled false, ball damage 1, and a single saved ball gives one ball
C21_OldSnapshotDefaults ==
    (op.name = "constructor" /\ storage.present /\ storage.decodable /\ storage.hasBlocks) =>
        /\ op.obs.result
        /\ "upgrades" \in DOMAIN storage =>
              \A t \in UpgradeTypes : upgrades[t] = DefaultedLevel(storage, t)
        /\ "bitBoosterTimer" \notin DOMAIN storage => bitBoosterTimer = 0
        /\ "cashBoosterTimer" \notin DOMAIN storage => cashBoosterTimer = 0
        /\ "prestigeCount" \notin DOMAIN storage => prestigeCount = 0
        /\ Len(blocks) = Len(storage.blocks)
        /\ \A i \in 1..Len(blocks) :
              /\ "type" \notin DOMAIN storage.blocks[i] => blocks[i].type = "normal"
              /\ "typeRolled" \notin DOMAIN storage.blocks[i] => ~blocks[i].typeRolled
        /\ "balls" \in DOMAIN storage =>
              /\ Len(balls) = Len(storage.balls)
              /\ \A i \in 1..Len(balls) :
                    "damage" \notin DOMAIN storage.balls[i] => balls[i].damage = 1
        /\ ("balls" \notin DOMAIN storage /\ "ball" \in DOMAIN storage) =>
              /\ Len(balls) = 1
              /\ balls[1].x = storage.ball.x /\ balls[1].y = storage.ball.y
              /\ "damage" \notin DOMAIN storage.ball => balls[1].damage = 1

\* an engine built over the oldest kind of snapshot: one ball of damage 1 where
\* the saved ball was, the saved damage level kept and every other level, the
\* timers and the prestige count at their defaults, every cell normal and unrolled
C21_OldestSnapshotLoaded ==
    /\ op.name = "constructor" /\ op.obs.result
    /\ "ball" \in DOMAIN storage /\ "balls" \notin DOMAIN storage
    /\ Len(balls) = 1 /\ balls[1].damage = 1 /\ balls[1].y = storage.ball.y
    /\ upgrades = [BaseUpgrades EXCEPT !.damage = 2]
    /\ bitBoosterTimer = 0 /\ cashBoosterTimer = 0 /\ prestigeCount = 0
    /\ money = storage.money /\ Len(blocks) > 0
    /\ \A i \in 1..Len(blocks) : blocks[i].type = "normal" /\ ~blocks[i].typeRolled


\* localStorage holds what saveGame would write from the engine as it is now
SavedAsIs(w) ==
    /\ storage.present /\ storage.decodable /\ storage.hasBlocks
    /\ "lastActiveTime" \in DOMAIN storage
    /\ [storage EXCEPT !.lastActiveTime = 0] = [Snapshot(w) EXCEPT !.lastActiveTime = 0]

\* C22: an engine built at the same canvas size over the snapshot the previous
\* engine had just saved holds the saved state again: money, upgrade levels,
\* both booster timers, prestige count, camera, frontier, row height, every
\* cell, and every ball with its position, velocity, radius and damage and
\* with the gravity of the saved gravity level
C22_SaveLoadRoundTrip ==
    [][(/\ op'.name = "constructor" /\ op'.obs.result
        /\ SavedAsIs(World)
        /\ op'.obs.load.width = canvasWidth /\ op'.obs.load.height = canvasHeight) =>
          /\ money' = money /\ upgrades' = upgrades
          /\ bitBoosterTimer' = bitBoosterTimer /\ cashBoosterTimer' = cashBoosterTimer
          /\ prestigeCount' = prestigeCount /\ offsetY' = offsetY
          /\ maxRowGenerated' = maxRowGenerated /\ rowHeight' = rowHeight
          /\ blocks' = blocks
          /\ Len(balls') = Len(balls)
          /\ \A i \in 1..Len(balls) :
                /\ SavedBall(balls'[i]) = SavedBall(balls[i])
                /\ balls'[i].gravity = GravityFor(RadiusOfRow(rowHeight), upgrades.gravity)]_vars


\* floor(base * (num / den)^n)
FloorOfPower(base, num, den, n) == (base * Pow(num, n)) \div Pow(den, n)

\* the stated cost of the track at level L
StatedCost(type, L) ==
    CASE type = "damage" -> FloorOfPower(100, 3, 2, L - 1)
      [] type = "gravity" -> FloorOfPower(50, 7, 5, L - 1)
      [] type = "efficiency" -> FloorOfPower(200, 8, 5, L - 1)
      [] OTHER -> IF L >= MAX_BLOCK_LEVEL THEN Infinity ELSE FloorOfPower(150, 3, 2, L)

\* C23: the price getShopPrices reports for every track is floor(100 x 1.5^(L-1))
\* for damage, floor(50 x 1.4^(L-1)) for gravity, floor(200 x 1.6^(L-1)) for
\* efficiency, floor(150 x 1.5^L) for a capped track below level 10 and
\* infinite at level 10, and it is strictly greater than the price one level below
C23_UpgradeCosts ==
    \A t \in UpgradeTypes :
        /\ ShopPrice(upgrades, t) = StatedCost(t, upgrades[t])
        /\ upgrades[t] > (IF t \in BlockUpgradeTypes THEN 0 ELSE 1) =>
              ShopPrice(upgrades, t) > ShopPrice([upgrades EXCEPT ![t] = @ - 1], t)


\* y of row 0 in an engine of the given canvas height and row height
StartYOf(height, rh) == getGroundY([canvasHeight |-> height]) + RadiusOfRow(rh) + 20 * PX

\* the continuous row index (y - startY) / rowHeight of a ball at y is the same
\* in the old and in the new geometry, to within 0.2 pixel of height
SameRowIndex(y, startY, rh, newY, newStartY, newRh) ==
    Abs((newY - newStartY) * rh - (y - startY) * newRh) <= 2 * rh

\* C24: every resize, in every lifecycle state, keeps each ball's continuous
\* row index (y - startY) / rowHeight, within tolerance
C24_RowIndexKeptEverywhere ==
    [][op'.name = "resize" =>
          /\ Len(balls') = Len(balls)
          /\ \A i \in 1..Len(balls) :
                SameRowIndex(balls[i].y, StartYOf(canvasHeight, rowHeight), rowHeight,
                             balls'[i].y, StartYOf(canvasHeight', rowHeight'), rowHeight')]_vars

\* the part of C24 that holds: a resize in PLAYING or PAUSED keeps each ball's
\* continuous row index; in MENU the balls are not remapped
C24_RowIndexKeptInPlay ==
    [][(op'.name = "resize" /\ gameState # "MENU") =>
          /\ Len(balls') = Len(balls)
          /\ \A i \in 1..Len(balls) :
                SameRowIndex(balls[i].y, StartYOf(canvasHeight, rowHeight), rowHeight,
                             balls'[i].y, StartYOf(canvasHeight', rowHeight'), rowHeight')]_vars

\* a paused game with two balls down the shaft was resized to the wide window
C24_ResizedWhilePaused ==
    /\ op.name = "resize" /\ op.from = "PAUSED"
    /\ canvasWidth = Wide.width /\ rowHeight = RowOfRadius(HexRadius(Wide.width \div 2))
    /\ Len(balls) = 2
    /\ \A i \in 1..2 : balls[i].y > StartYOf(canvasHeight, rowHeight) + 2 * rowHeight


\* C25: after every update that ran the physics, the speed of each ball is at
\* most 0.8 x the cell radius (rowHeight / 1.5)
C25_SpeedBounded ==
    (op.name = "update" /\ op.obs.physics) =>
        \A i \in 1..Len(balls) :
            balls[i].dx * balls[i].dx + balls[i].dy * balls[i].dy
              <= ((RadiusOfRow(rowHeight) * 8) \div 10) * ((RadiusOfRow(rowHeight) * 8) \div 10)


\* C26: after checkCollision has resolved a collision, the centre of the ball
\* is at least the ball's radius, less a pixel, from the boundary of the cell
C26_NoResidualPenetration ==
    \A h \in 1..Len(op.obs.hits) :
        op.obs.hits[h].gapSq
          >= (op.obs.hits[h].radius - PX) * (op.obs.hits[h].radius - PX)


\* C27: in every state every live cell has 0 < hp <= maxHp; a cell that a hit
\* brought to hp <= 0 in an update is no longer live after that update
C27_LiveCellsHealthy ==
    /\ \A i \in 1..Len(blocks) : blocks[i].hp > 0 /\ blocks[i].hp <= blocks[i].maxHp
    /\ \A h \in 1..Len(op.obs.hits) :
          op.obs.hits[h].after <= 0 =>
              ~\E i \in 1..Len(blocks) :
                  blocks[i].row = op.obs.hits[h].row /\ blocks[i].col = op.obs.hits[h].col

\* an update in which one hit brought a cell to hp <= 0, now gone, and another
\* hit left its cell live with less than its full hp
C27_HitAndRemoved ==
    /\ op.name = "update"
    /\ \E h \in 1..Len(op.obs.hits) :
          /\ op.obs.hits[h].after <= 0
          /\ ~\E i \in 1..Len(blocks) :
                blocks[i].row = op.obs.hits[h].row /\ blocks[i].col = op.obs.hits[h].col
    /\ \E h \in 1..Len(op.obs.hits), i \in 1..Len(blocks) :
          /\ blocks[i].row = op.obs.hits[h].row /\ blocks[i].col = op.obs.hits[h].col
          /\ op.obs.hits[h].after > 0 /\ blocks[i].hp = op.obs.hits[h].after
          /\ blocks[i].hp < blocks[i].maxHp

SpeedSq(b) == b.dx * b.dx + b.dy * b.dy

\* the velocity of nb points the way the velocity of b does, to within the
\* rounding of the components
SameDirection(b, nb) ==
    /\ Abs(b.dx * nb.dy - b.dy * nb.dx) <= Abs(b.dx) + Abs(b.dy)
    /\ b.dx * nb.dx + b.dy * nb.dy >= 0

\* nb has the velocity of b with its direction kept and its magnitude scaled by
\* newRadius / oldRadius and clamped to tenths x newRadius / 10
VelocityRescaled(b, nb, oldRadius, newRadius, tenths) ==
    /\ SameDirection(b, nb)
    /\ Abs(Sqrt(SpeedSq(nb))
           - Min((Sqrt(SpeedSq(b)) * newRadius) \div oldRadius, (newRadius * tenths) \div 10))
         <= 3
    /\ SpeedSq(nb) <= ((newRadius * tenths) \div 10 + PX) * ((newRadius * tenths) \div 10 + PX)

\* C28: a resize in PLAYING or PAUSED keeps the direction of each ball's
\* velocity, scales its magnitude by newRadius / oldRadius and clamps it to the
\* bound of the physics step: the speed is at most 0.8 x the new cell radius
C28_ResizeRescalesVelocity ==
    [][(op'.name = "resize" /\ gameState # "MENU" /\ rowHeight > PX) =>
          \A i \in 1..Len(balls) :
              VelocityRescaled(balls[i], balls'[i], RadiusOfRow(rowHeight),
                               RadiusOfRow(rowHeight'), 8)]_vars

\* the part of C28 that holds: direction kept, magnitude scaled, and the
\* clamp of resize, which is 1.0 x the new cell radius
C28_ResizeClampsAtRadius ==
    [][(op'.name = "resize" /\ gameState # "MENU" /\ rowHeight > PX) =>
          \A i \in 1..Len(balls) :
              VelocityRescaled(balls[i], balls'[i], RadiusOfRow(rowHeight),
                               RadiusOfRow(rowHeight'), 10)]_vars

\* a game in play whose balls moved faster than 0.8 x the cell radius was
\* resized to the wide window
C28_FastBallResized ==
    /\ op.name = "resize" /\ op.from = "PLAYING"
    /\ canvasWidth = Wide.width
    /\ \E i \in 1..Len(balls) :
          SpeedSq(balls[i]) > ((RadiusOfRow(rowHeight) * 8) \div 10 + PX)
                                * ((RadiusOfRow(rowHeight) * 8) \div 10 + PX)

\* the geometry of an engine constructed at (width, height): the constructor
\* up to loadGame
DirectlySized(width, height) ==
    Built(updateGeometry([canvasWidth |-> width, canvasHeight |-> height,
                          holeWidth |-> 0, holeLeft |-> 0, holeRight |-> 0,
                          rowHeight |-> 0, offsetY |-> 0, balls |-> <<>>,
                          upgrades |-> BaseUpgrades]), 500)

\* cell b is where, and as large as, generateRows makes the cell of its
\* (row, col) in engine e
PlacedAsGenerated(b, e) ==
    /\ b.x = GeneratedBlock(e, b.row, b.col, NoHits).x
    /\ b.y = GeneratedBlock(e, b.row, b.col, NoHits).y
    /\ b.radius = GeneratedBlock(e, b.row, b.col, NoHits).radius

CellsAsDirect(bs, width, height) ==
    \E e \in {DirectlySized(width, height)} :
        \A i \in 1..Len(bs) : PlacedAsGenerated(bs[i], e)

\* C29: after any sequence of resizes ending at (W, H), every live cell has the
\* x, y and radius generateRows computes for its (row, col) in an engine sized
\* (W, H) directly, whatever the sizes before, and the rows a later update
\* generates are placed the same way
C29_CellsPathIndependent == CellsAsDirect(blocks, canvasWidth, canvasHeight)

\* a game resized twice, ending at the wide window, in which an update then
\* generated rows below the ones the resizes had moved
C29_GeneratedAfterResizes ==
    /\ op.name = "update" /\ budget.resizes = 0
    /\ canvasWidth = Wide.width
    /\ maxRowGenerated > INITIAL_ROWS
    /\ \E i, j \in 1..Len(blocks) : blocks[i].row < INITIAL_ROWS /\ blocks[j].row >= INITIAL_ROWS

\* what resize re-derives in every lifecycle state, of the engine after the
\* call: hole geometry, rowHeight, every ball's radius and gravity, cell places
Rederived(e) ==
    /\ e.holeWidth = e.canvasWidth \div 2
    /\ e.holeLeft = (e.canvasWidth - e.holeWidth) \div 2
    /\ e.holeRight = e.holeLeft + e.holeWidth
    /\ e.rowHeight = RowOfRadius(HexRadius(e.holeWidth))
    /\ \A i \in 1..Len(e.balls) :
          /\ e.balls[i].radius = (HexRadius(e.holeWidth) * 3) \div 10
          /\ e.balls[i].gravity = GravityFor(HexRadius(e.holeWidth), e.upgrades.gravity)
    /\ CellsAsDirect(e.blocks, e.canvasWidth, e.canvasHeight)

\* the camera re-centred on the ground: the ground at 75% of the screen height
CameraOnGround(e) == e.offsetY = getGroundY(e) - (e.canvasHeight * 3) \div 4

\* a ball reset: over the middle of the canvas, hovering above the ground,
\* with no vertical velocity and at most 2 pixels per frame across
BallReset(b, e) ==
    /\ b.x = e.canvasWidth \div 2
    /\ b.y = getGroundY(e) - HoverDist(e)
    /\ b.dy = 0 /\ Abs(b.dx) <= 2 * PX

\* a ball wholly between the walls of the shaft
InsideShaft(b, e) == b.x - b.radius >= e.holeLeft /\ b.x + b.radius <= e.holeRight

\* the engine after the step, as far as the frame of resize is concerned
ResizedEngine ==
    [canvasWidth |-> canvasWidth', canvasHeight |-> canvasHeight',
     holeWidth |-> holeWidth', holeLeft |-> holeLeft', holeRight |-> holeRight',
     rowHeight |-> rowHeight', offsetY |-> offsetY', upgrades |-> upgrades',
     balls |-> balls', blocks |-> blocks']

\* C30: resize re-derives hole geometry, rowHeight, ball radius and gravity and
\* cell positions in every lifecycle state; only in MENU does it re-centre the
\* camera on the ground and reset the ball, elsewhere the camera goes to the
\* deepest ball and the balls keep their rows; and in MENU every ball, not only
\* the first, ends inside the bounds of the new shaft
C30_ResizeFrame ==
    [][op'.name = "resize" =>
          /\ Rederived(ResizedEngine)
          /\ Len(balls') = Len(balls)
          /\ gameState = "MENU" =>
                /\ CameraOnGround(ResizedEngine)
                /\ BallReset(balls'[1], ResizedEngine)
                /\ \A i \in 1..Len(balls') : InsideShaft(balls'[i], ResizedEngine)
          /\ gameState # "MENU" =>
                /\ offsetY' = deepestBall(balls').y - canvasHeight' \div 3
                /\ \A i \in 1..Len(balls) :
                      SameRowIndex(balls[i].y, StartYOf(canvasHeight, rowHeight), rowHeight,
                                   balls'[i].y, StartYOf(canvasHeight', rowHeight'),
                                   rowHeight')]_vars

\* the part of C30 that holds: the same, with only the first ball put inside
\* the new shaft in MENU
C30_ResizeFrameFirstBall ==
    [][op'.name = "resize" =>
          /\ Rederived(ResizedEngine)
          /\ Len(balls') = Len(balls)
          /\ gameState = "MENU" =>
                /\ CameraOnGround(ResizedEngine)
                /\ BallReset(balls'[1], ResizedEngine)
                /\ InsideShaft(balls'[1], ResizedEngine)
          /\ gameState # "MENU" =>
                /\ offsetY' = deepestBall(balls').y - canvasHeight' \div 3
                /\ \A i \in 1..Len(balls) :
                      SameRowIndex(balls[i].y, StartYOf(canvasHeight, rowHeight), rowHeight,
                                   balls'[i].y, StartYOf(canvasHeight', rowHeight'),
                                   rowHeight')]_vars

\* the menu over a loaded two-ball session was resized to the wide window and
\* the second ball is left of the new shaft
C30_SecondBallOutsideShaft ==
    /\ op.name = "resize" /\ op.from = "MENU"
    /\ canvasWidth = Wide.width /\ Len(balls) = 2
    /\ balls[2].x < holeLeft


\* C31: within one update a given ball applies damage to a given cell at most
\* once, also when a destroyed explosive cell removes other cells from the
\* list while the collision pass iterates over it
C31_OneDamagePerBallAndCell ==
    \A g, h \in 1..Len(op.obs.hits) :
        (/\ op.obs.hits[g].ball = op.obs.hits[h].ball
         /\ op.obs.hits[g].row = op.obs.hits[h].row
         /\ op.obs.hits[g].col = op.obs.hits[h].col) => g = h

\* an update in which a hit destroyed an explosive cell, the chain removed
\* cells listed before it, and the pass went on to another hit
C31_HitAfterExplosion ==
    /\ op.name = "update"
    /\ \E g, h \in 1..Len(op.obs.hits), r \in 1..Len(op.obs.removed) :
          /\ g < h
          /\ op.obs.hits[g].after <= 0
          /\ op.obs.removed[r].cause = "chain"
          /\ \/ op.obs.removed[r].row < op.obs.hits[g].row
             \/ /\ op.obs.removed[r].row = op.obs.hits[g].row
                /\ op.obs.removed[r].col < op.obs.hits[g].col


\* C32: the resize guard suspends the physics only for the settle window:
\* whenever isResizing is true a settle timeout is pending, so for every
\* interleaving of resize events, pointer events and togglePause an update of
\* an engine in PLAYING with no settle timeout pending runs the physics step
C32_GuardOnlyWhileSettling ==
    [][/\ isResizing' => resizeTimeout'
       /\ (op'.name = "update" /\ gameState' = "PLAYING" /\ ~resizeTimeout')
             => op'.obs.physics]_vars

\* the guard was raised by a press on the volume slider, Escape went back to
\* PLAYING, and an update returned before the physics with no timeout pending
C32_PhysicsSuspendedWithoutTimeout ==
    /\ op.name = "update" /\ gameState = "PLAYING"
    /\ isResizing /\ ~resizeTimeout
    /\ ~op.obs.physics

\* the guard raised by a window resize has its settle timeout pending
C32_ResizeGuardHasTimeout ==
    [][op'.name = "resize" => (isResizing' /\ resizeTimeout')]_vars


\* C33: in every reachable state a cell whose x is outside
\* [holeLeft, holeRight] has type normal, and a cell of a special type exists
\* only while the level of its upgrade track is at least 1
C33_SpecialCellsInHoleAndUnlocked ==
    \A i \in 1..Len(blocks) :
        /\ (blocks[i].x < holeLeft \/ blocks[i].x > holeRight) => blocks[i].type = "normal"
        /\ blocks[i].type = "bitBooster" => upgrades.bitBoosters >= 1
        /\ blocks[i].type = "explosive" => upgrades.explosiveBlocks >= 1
        /\ blocks[i].type = "cashBooster" => upgrades.cashBoosters >= 1

\* an update generated a batch of rows while a special track was unlocked:
\* the batch holds a special cell and a half cell outside the hole
C33_RolledBesideHalfCells ==
    /\ op.name = "update" /\ maxRowGenerated > INITIAL_ROWS
    /\ \E i, j \in 1..Len(blocks) :
          /\ blocks[i].row >= INITIAL_ROWS /\ blocks[i].type # "normal"
          /\ blocks[j].row >= INITIAL_ROWS /\ blocks[j].x < holeLeft


\* every ball has the damage of the damage level and the gravity of the
\* gravity level at the radius `radius`
FollowLevels(bs, ups, radius) ==
    \A i \in 1..Len(bs) :
        /\ bs[i].damage = ups.damage
        /\ bs[i].gravity = GravityFor(radius, ups.gravity)

\* C34: every ball's damage equals the damage level and its gravity equals
\* cellRadius x 0.02 x (1 + (gravityLevel - 1) x 0.1) in every state reached
\* by purchases, resizes, prestige and loads of a snapshot written by
\* saveGame: every step from a state where that holds, a load only of the
\* snapshot the engine has just saved, ends in a state where it holds
C34_BallsFollowLevels ==
    [][(/\ FollowLevels(balls, upgrades, RadiusOfRow(rowHeight))
        /\ op'.name = "constructor" => (op'.obs.result /\ SavedAsIs(World))) =>
          FollowLevels(balls', upgrades', RadiusOfRow(rowHeight'))]_vars

\* the damage half of the same statement
C34_DamageFollowsLevel ==
    [][(/\ \A i \in 1..Len(balls) : balls[i].damage = upgrades.damage
        /\ op'.name = "constructor" => (op'.obs.result /\ SavedAsIs(World))) =>
          \A i \in 1..Len(balls') : balls'[i].damage = upgrades'.damage]_vars

\* the gravity half after every operation but the load of a snapshot: a
\* purchase, a resize and a prestige leave every ball with the gravity of the level
C34_GravityFollowsLevelUnlessLoaded ==
    [][(/\ op'.name # "constructor"
        /\ \A i \in 1..Len(balls) :
              balls[i].gravity = GravityFor(RadiusOfRow(rowHeight), upgrades.gravity)) =>
          \A i \in 1..Len(balls') :
              balls'[i].gravity = GravityFor(RadiusOfRow(rowHeight'), upgrades'.gravity)]_vars

\* a snapshot with the gravity track above level 1 was loaded at the size it
\* was saved at: the balls have the base gravity
C34_LoadedWithBaseGravity ==
    /\ op.name = "constructor" /\ op.obs.result
    /\ op.obs.load.width = op.obs.load.savedWidth
    /\ op.obs.load.height = op.obs.load.savedHeight
    /\ upgrades.gravity > 1
    /\ storage.upgrades = upgrades
    /\ \A i \in 1..Len(balls) :
          /\ balls[i].damage = upgrades.damage
          /\ balls[i].gravity = GravityFor(RadiusOfRow(rowHeight), 1)


\* the depth of the deepest ball in rows: floor((y - startY) / rowHeight), not below 0
DepthInRows(w) ==
    Max(0, (deepestBall(w.balls).y - (getGroundY(w) + RadiusOfRow(w.rowHeight) + 20 * PX))
             \div w.rowHeight)

\* C35: the offline reward is floor(bodies x damage x 2 / avgHealth x avgValue
\* x efficiencyMultiplier x cappedSeconds), avgHealth = 1 + floor(d x 0.2) and
\* avgValue = 10 + floor(d x 0.5) being the generation formulas at the current
\* depth d in rows (the generation frontier, or the row the deepest ball is
\* in), and it is credited once per resume
C35_OfflineRewardAtDepthInRows ==
    [][(op'.name = "onTabVisible" /\ op'.obs.offline.ran) =>
          /\ \E d \in {maxRowGenerated, DepthInRows(World)} :
                op'.obs.offline.earned =
                    OfflineEarnings(World, Min(now' - lastActiveTime, MAX_OFFLINE_TIME), d)
          /\ money' - money = op'.obs.offline.earned]_vars

\* the formula as the code evaluates it, at twice the row of the deepest ball,
\* and the single credit per resume
C35_OfflineRewardAtHalfRows ==
    [][(op'.name = "onTabVisible" /\ op'.obs.offline.ran) =>
          /\ op'.obs.offline.earned =
                OfflineEarnings(World, Min(now' - lastActiveTime, MAX_OFFLINE_TIME),
                                CurrentDepth(World))
          /\ CurrentDepth(World) \in {2 * DepthInRows(World), 2 * DepthInRows(World) + 1}
          /\ money' - money = op'.obs.offline.earned
          /\ lastActiveTime' = now']_vars

\* a resume after 5 s away with the deepest ball in row 3 or below: the
\* estimator worked at depth 6 or more
C35_ResumedBelowRowThree ==
    /\ op.name = "onTabVisible" /\ op.obs.offline.ran
    /\ op.obs.offline.elapsed >= 5000 /\ op.obs.offline.earned > 0
    /\ DepthInRows(World) >= 3 /\ CurrentDepth(World) >= 6


\* C36: the interval onTabVisible credits is exactly the time since the
\* matching onTabHidden taken in PLAYING, for every interleaving of load,
\* start, togglePause, onTabHidden and onTabVisible: a credit is given only
\* when such an onTabHidden is unanswered, and for the time since it
C36_CreditedSinceHiddenInPlay ==
    [][(op'.name = "onTabVisible" /\ op'.obs.offline.ran) =>
          /\ hiddenAt >= 0
          /\ op'.obs.offline.elapsed = now' - hiddenAt]_vars

\* when the tab was hidden in PLAYING, the interval credited on its return is
\* the time since then, and a second return finds nothing left to credit
C36_PairedAbsenceCreditedOnce ==
    [][(op'.name = "onTabVisible" /\ hiddenAt >= 0) =>
          /\ op'.obs.offline.elapsed = now' - hiddenAt
          /\ lastActiveTime' = now' /\ hiddenAt' = -1]_vars

\* a snapshot was loaded and continued, and an onTabVisible with no
\* onTabHidden before it credited an interval that starts before the load
C36_CreditedSinceBeforeLoad ==
    /\ op.name = "onTabVisible" /\ op.obs.offline.ran
    /\ op.obs.offline.earned > 0
    /\ now - op.obs.offline.elapsed < StartTime


\* C37: during the collision pass of update every index read refers to a
\* live cell: also after a destroyed explosive cell had destroyAdjacentBlocks
\* splice cells out, the loop reads no index at or beyond the length of the list
C37_PassReadsLiveCells ==
    op.name = "update" => ~op.obs.threw

\* an update in which a destroyed explosive cell took neighbours with it and
\* the pass went on over the shortened list without leaving it
C37_PassWentOnAfterChain ==
    /\ op.name = "update" /\ ~op.obs.threw
    /\ \E r \in 1..Len(op.obs.removed) : op.obs.removed[r].cause = "chain"


\* what the removals of one operation credited in all
Credited(removed) == SumSeq([r \in 1..Len(removed) |-> removed[r].credit])

\* C38: money is a non-negative integer in every state, and every step
\* changes it in one of these ways only: a prestige sets it to 0, a successful
\* purchase takes the cost of the track, which the money covered, an update
\* adds the rewards of the cells it removed, a resume adds the offline credit,
\* and a load takes the money of the snapshot the engine wrote
C38_MoneyNeverNegative ==
    [][/\ money \in Nat /\ money' \in Nat
       /\ \/ op'.obs.prestiged /\ money' = 0
          \/ /\ op'.name = "handleInput" /\ op'.obs.buy # "none" /\ op'.obs.result
             /\ money >= ShopPrice(upgrades, op'.obs.buy)
             /\ money' = money - ShopPrice(upgrades, op'.obs.buy)
          \/ /\ op'.name = "update"
             /\ money' = money + Credited(op'.obs.removed)
          \/ /\ op'.name = "onTabVisible" /\ op'.obs.offline.ran
             /\ op'.obs.offline.earned >= 0
             /\ money' = money + op'.obs.offline.earned
          \/ /\ op'.name = "constructor" /\ op'.obs.result
             /\ money' = storage.money
          \/ money' = money]_vars

\* a purchase was refused for lack of money, and the money is as it was
C38_RefusedForLackOfMoney ==
    /\ op.name = "handleInput" /\ op.obs.buy # "none" /\ ~op.obs.result
    /\ op.obs.buy \in BlockUpgradeTypes => upgrades[op.obs.buy] < MAX_BLOCK_LEVEL
    /\ money < ShopPrice(upgrades, op.obs.buy)

\* a purchase went through and left less than the next level of the track costs
C38_SpentDown ==
    /\ op.name = "handleInput" /\ op.obs.buy # "none" /\ op.obs.result
    /\ money < ShopPrice(upgrades, op.obs.buy)


\* the rows of the layout compared pairwise: 0 .. LayoutRows
LayoutRows == 4

\* (row, col) of b is one of the six neighbour coordinates destroyAdjacentBlocks
\* computes for a
AmongNeighbours(a, b) ==
    \E k \in 1..Len(NeighbourOffsets(a.row)) :
        /\ b.row = a.row + NeighbourOffsets(a.row)[k][1]
        /\ b.col = a.col + NeighbourOffsets(a.row)[k][2]

\* the centres of a and b are one cell spacing (the column step) apart, to
\* within one percent: the square of their distance is within two percent of dx * dx
OneSpacingApart(a, b, dx) ==
    /\ (a.x - b.x) * (a.x - b.x) + (a.y - b.y) * (a.y - b.y) >= (98 * dx * dx) \div 100
    /\ (a.x - b.x) * (a.x - b.x) + (a.y - b.y) * (a.y - b.y) <= (102 * dx * dx) \div 100

\* the relation of the tables is symmetric and is adjacency in the layout
\* generateRows gives the rows 0 .. LayoutRows in the geometry of e
TablesMatchLayout(e) ==
    \A r1, r2 \in 0..LayoutRows, c1, c2 \in 0..(numColumns - 1) :
        /\ AmongNeighbours([row |-> r1, col |-> c1], [row |-> r2, col |-> c2])
              <=> AmongNeighbours([row |-> r2, col |-> c2], [row |-> r1, col |-> c1])
        /\ AmongNeighbours([row |-> r1, col |-> c1], [row |-> r2, col |-> c2])
              <=> OneSpacingApart(GeneratedBlock(e, r1, c1, NoHits),
                                  GeneratedBlock(e, r2, c2, NoHits),
                                  ColumnStep(e.holeWidth))

\* C39: the neighbour tables of destroyAdjacentBlocks define a symmetric
\* relation that matches the generated layout: B is among A's six neighbour
\* coordinates exactly when A is among B's, and exactly when the centres
\* generateRows gives them are one cell spacing apart, in the geometry of
\* every engine constructed or resized
C39_NeighbourTablesMatchLayout ==
    op.name \in {"constructor", "resize"} => TablesMatchLayout(World)

\* in every engine constructed or resized with a column step above 0 the
\* relation of the tables is symmetric and is adjacency in the layout; in a
\* window without width all centres coincide and no pair is told apart
C39_TablesMatchSpacedLayout ==
    (op.name \in {"constructor", "resize"} /\ ColumnStep(holeWidth) > 0)
        => TablesMatchLayout(World)

\* an engine constructed in a window without width: the cells (0, 0) and
\* (0, 5) lie on one point, no column step apart, and are no neighbours
C39_LayoutWithoutWidth ==
    /\ op.name = "constructor" /\ ColumnStep(holeWidth) = 0
    /\ GeneratedBlock(World, 0, 0, NoHits).x = GeneratedBlock(World, 0, 5, NoHits).x
    /\ ~AmongNeighbours([row |-> 0, col |-> 0], [row |-> 0, col |-> 5])

\* an engine resized to the wide window: the odd row cell (1, 3) lies half a
\* column step left of (0, 3) and one row height below it
C39_ResizedLayout ==
    /\ op.name = "resize" /\ canvasWidth = Wide.width
    /\ GeneratedBlock(World, 1, 3, NoHits).x
          = GeneratedBlock(World, 0, 3, NoHits).x - ColumnStep(holeWidth) \div 2
    /\ GeneratedBlock(World, 1, 3, NoHits).y = GeneratedBlock(World, 0, 3, NoHits).y + rowHeight
    /\ AmongNeighbours([row |-> 1, col |-> 3], [row |-> 0, col |-> 3])


\* C40: the generation catch-up loop of update terminates in every step, for
\* every viewport size the engine is constructed or resized with, a width of
\* 0 (rowHeight 0) included: it exits after finitely many batches of 50 rows
C40_CatchUpTerminates ==
    op.name = "update" => ~op.obs.stalled

\* with a row height above 0 every catch-up loop of the runs is over within
\* MaxBatches batches
C40_CatchUpTerminatesWithRows ==
    (op.name = "update" /\ rowHeight > 0) => ~op.obs.stalled

\* the loop ran its batches in a window without width: the row height is 0,
\* so its condition, offsetY + canvasHeight * 1.5 > 250, does not depend on
\* the frontier and is as true as before the first batch
C40_FrontierLineStandsStill ==
    /\ op.name = "update" /\ op.obs.stalled
    /\ rowHeight = 0 /\ maxRowGenerated = INITIAL_ROWS + MaxBatches * BATCH_ROWS
    /\ offsetY + (canvasHeight * 3) \div 2 > 250 * PX + maxRowGenerated * rowHeight

=============================================================================
